---- MODULE Spec2Model ----
(***************************************************************************)
(* A model of the job-board scraper of src/web_scraper.py:                 *)
(*   - the orchestrator scrape_multiple_sites and the adapter run          *)
(*     JobScraper.scrape_jobs, as a state machine over an abstract         *)
(*     adapter whose scrape_page / get_total_pages may return or raise     *)
(*     (specifications Spec and SpecDeep);                                 *)
(*   - parse_expiry_date and is_job_current, over texts made of words and  *)
(*     of dates written in a layout (specification SpecDate);              *)
(*   - scrape_page of the five concrete adapters, over the items a         *)
(*     fetched page holds (specification SpecPage);                        *)
(*   - classify_job_category over titles, descriptions and companies       *)
(*     (specification SpecClassify) and clean_text over strings of code    *)
(*     points (specification SpecClean);                                   *)
(*   - the dict each adapter builds for a listing, field by field          *)
(*     (specification SpecListing);                                        *)
(*   - get_total_pages and extract_email_from_job_page of the five         *)
(*     adapters (specifications SpecPages and SpecEmail);                  *)
(*   - the whole of scrape_multiple_sites with its persistence step        *)
(*     (specification SpecSave), and the adapter loop as configured in     *)
(*     src/web_scraper.py and in src/web_scraper_clean.py (SpecFiles).     *)
(***************************************************************************)
EXTENDS Integers, Sequences, FiniteSets, TLC

VARIABLES
    \* ---- scrape_multiple_sites
    test_mode,        \* the test_mode argument
    scraper_i,        \* position of the for loop in the scrapers list
    opc,              \* "scraping" | "finished" (the adapter loop is over) | "csv_saved" |
                      \* "json_saved" | "latest_csv_saved" | "statistics" | "ended"
    all_jobs_data,    \* the aggregate list
    site_stats,       \* site name -> number of listings
    returned,         \* history: per adapter position, what scrape_jobs returned and how
    files,            \* file name -> "absent" | "old" (of an earlier run) | "new"
    last_write,       \* history: the file written last and how the write ended
    warned,           \* the warning "Could not overwrite main files" was logged
    ended,            \* "no" | "returned" | "raised": how scrape_multiple_sites ended
    \* ---- JobScraper.scrape_jobs (the adapter run in progress)
    pc,               \* "idle" | "first_page" | "count_pages" | "next_page" | "return"
    run_jobs_data,    \* scrape_jobs' local all_jobs_data
    first_page_soup,  \* the document of page 1
    total_pages,
    page_num,         \* next page of the loop of line 335
    result,           \* [jobs, how]: return value of scrape_jobs and the path taken
    calls,            \* history: the calls this run made on its adapter, in order
    \* ---- the environment (the web sites), fixed at the start
    env_focus,        \* the adapter (position) whose site is unconstrained over MaxPages pages
    env_deep,         \* TRUE: every site advertises a pagination around the loop limit
    source_file,      \* the file whose scrape_multiple_sites runs
    \* ---- parse_expiry_date / is_job_current
    dpc,              \* "off" | "input" | "parsed" | "checked"
    expiry_text,      \* the argument
    today,            \* datetime.now().date()
    expiry_date,      \* what parse_expiry_date returned
    is_current,       \* what is_job_current returned
    \* ---- scrape_page of the concrete adapters
    ppc,              \* "off" | "input" | "returned"
    page_site,        \* site_name of the adapter called
    arg_page_num,     \* the page_num argument
    page_content,     \* what the site serves for that page
    page_result,      \* [jobs, doc, raised, errors]: how the call ended
    page_requests,    \* history: the HTTP requests the call made for the results page
    \* ---- classify_job_category
    cpc,              \* "off" | "input" | "classified" | "again"
    title,
    description,
    company,
    category_scores,  \* position of a category in the dict -> its score
    category,         \* what classify_job_category returned
    category_again,   \* what a second call with the same arguments returned
    \* ---- clean_text
    kpc,              \* "off" | "input" | "once" | "twice"
    raw_text,         \* the argument
    cleaned,          \* clean_text(raw_text)
    cleaned_again,    \* clean_text(cleaned)
    \* ---- the dict of a listing
    lpc,              \* "off" | "scraped" | "appended"
    scraped,          \* what the adapter read for the listing
    job_dict,         \* the dict appended to jobs_data
    \* ---- get_total_pages of the concrete adapters
    gpc,              \* "off" | "input" | "returned"
    pages_site,       \* site_name of the adapter called
    pages_soup,       \* the soup argument
    pages_returned,   \* how the call ended
    \* ---- extract_email_from_job_page of the concrete adapters
    epc,              \* "off" | "input" | "returned"
    email_site,       \* site_name of the adapter called
    detail_page,      \* what the site serves for job_url
    email_returned    \* the str returned

runVars == <<test_mode, scraper_i, opc, all_jobs_data, site_stats, returned,
             files, last_write, warned, ended,
             pc, run_jobs_data, first_page_soup, total_pages, page_num, result, calls,
             env_focus, env_deep, source_file>>

dateVars == <<dpc, expiry_text, today, expiry_date, is_current>>

pageVars == <<ppc, page_site, arg_page_num, page_content, page_result, page_requests>>

classVars == <<cpc, title, description, company, category_scores, category, category_again>>

\* the variables of the functions on texts
cleanVars == <<kpc, raw_text, cleaned, cleaned_again>>

listVars == <<lpc, scraped, job_dict>>

pagesVars == <<gpc, pages_site, pages_soup, pages_returned>>

\* the variables of the calls of the adapters' other methods
emailVars == <<epc, email_site, detail_page, email_returned>>

callVars == <<pagesVars, emailVars>>

textVars == <<classVars, cleanVars, listVars, callVars>>

vars == <<runVars, dateVars, pageVars, textVars>>

fileVars == <<files, last_write, warned, ended>>

orchVars == <<test_mode, scraper_i, opc, all_jobs_data, site_stats, returned, fileVars>>
envVars == <<env_focus, env_deep, source_file>>

----------------------------------------------------------------------------
\* Bounds of the model
MaxPages == 3
JobsPerPage == 1

\* Program constants
\* range(2, min(total_pages + 1, 30)): the loop's exclusive upper limit
LoopLimit == 30
\* "# Limit to 50 pages for safety": the limit the comment on that line documents
DocumentedLimit == 50

\* scrapers = [VacancyMailScraper(), JobsZimbabweScraper(), ...], by site_name
Scrapers ==
    <<"VacancyMail", "Jobs Zimbabwe", "ZimboJobs", "VacancyBox", "RecruitmentMatters">>

\* the two files that define scrape_multiple_sites
MainFile == "web_scraper.py"
CleanFile == "web_scraper_clean.py"

\* web_scraper_clean.py: scrapers = [VacancyMailScraper(), JobsZimbabweScraper(),
\* ZimboJobsScraper()], by site_name; ZimboJobsScraper passes "Jobs Zimbabwe" to
\* super().__init__
CleanScrapers == <<"VacancyMail", "Jobs Zimbabwe", "Jobs Zimbabwe">>

\* for scraper in scrapers, of the file that runs
ConfiguredScrapers == IF source_file = CleanFile THEN CleanScrapers ELSE Scrapers

Min(a, b) == IF a <= b THEN a ELSE b

\* ---- documents (BeautifulSoup or None)
NoneDoc == [isNone |-> TRUE, site |-> "", page |-> 0]
Doc(site, p) == [isNone |-> FALSE, site |-> site, page |-> p]

\* ---- the listings a results page holds
PageJobs(site, p) ==
    [i \in 1..JobsPerPage |-> [site |-> site, page |-> p, index |-> i]]

\* ---- what a call of the abstract scrape_page(url, page_num) may do
\*   ok:             (listings, document)
\*   ok_empty:       ([], document)    a page none of whose listings is kept
\*   fail:           ([], None)        the failure sentinel of the concrete adapters
\*   fail_with_jobs: (listings, None)  allowed by the abstract signature
\*   raise:          an exception propagates to scrape_jobs
\* The focus adapter's first MaxPages pages may do any of these; the other adapters'
\* pages succeed, fail or raise; the pages of a deep site succeed.
PageOutcomes(i, p) ==
    IF env_deep \/ p > MaxPages THEN {"ok"}
    ELSE IF i = env_focus THEN {"ok", "ok_empty", "fail", "fail_with_jobs", "raise"}
    ELSE {"ok", "fail", "raise"}

PageResultJobs(site, p, o) ==
    IF o \in {"ok", "fail_with_jobs"} THEN PageJobs(site, p) ELSE <<>>

PageResultDoc(site, p, o) ==
    IF o \in {"ok", "ok_empty"} THEN Doc(site, p) ELSE NoneDoc

\* ---- what a call of the abstract get_total_pages(soup) may do: 0 stands for raise
TotalPagesOutcomes(i) ==
    IF env_deep THEN {LoopLimit - 2, LoopLimit - 1, LoopLimit, DocumentedLimit + 1}
    ELSE IF i = env_focus THEN 0..MaxPages
    ELSE {1}

----------------------------------------------------------------------------
\* Calendar dates (datetime.date) and scraped texts

\* None, where a date is expected
NoDate == [y |-> 0, m |-> 0, d |-> 0]
Date(y, m, d) == [y |-> y, m |-> m, d |-> d]

IsLeap(y) == (y % 4 = 0 /\ y % 100 # 0) \/ y % 400 = 0

DaysInMonth(y, m) ==
    IF m = 2 THEN (IF IsLeap(y) THEN 29 ELSE 28)
    ELSE IF m \in {4, 6, 9, 11} THEN 30
    ELSE 31

\* the (year, month, day) triples datetime accepts
ValidDate(y, m, d) == y \in 1..9999 /\ m \in 1..12 /\ d \in 1..DaysInMonth(y, m)

NextDay(dt) ==
    IF dt.d < DaysInMonth(dt.y, dt.m) THEN Date(dt.y, dt.m, dt.d + 1)
    ELSE IF dt.m < 12 THEN Date(dt.y, dt.m + 1, 1)
    ELSE Date(dt.y + 1, 1, 1)

\* dt + timedelta(days=n)
RECURSIVE AddDays(_, _)
AddDays(dt, n) == IF n = 0 THEN dt ELSE AddDays(NextDay(dt), n - 1)

\* a >= b on dates
DateGE(a, b) ==
    \/ a.y > b.y
    \/ a.y = b.y /\ a.m > b.m
    \/ a.y = b.y /\ a.m = b.m /\ a.d >= b.d

\* A text is a sequence of tokens: words, and date-like substrings written in a layout
\*   "B d, Y"  August 31, 2025      "B d Y"  August 31 2025     "b d, Y"  Aug 31, 2025
\*   "d B Y"   31 August 2025       "d b Y"  31 Aug 2025        "Y-m-d"   2025-08-31
\*   "d/m/Y"   31/08/2025           "X d, Y" Sept 31, 2025 (a word that is no month name)
Word(w) == [k |-> "word", w |-> w, f |-> "", y |-> 0, m |-> 0, d |-> 0]
DateTok(f, y, m, d) == [k |-> "date", w |-> "", f |-> f, y |-> y, m |-> m, d |-> d]

\* the argument of parse_expiry_date: a string (a token sequence) or another object
Str(toks) == [isStr |-> TRUE, truthy |-> toks # <<>>, toks |-> toks]
NoneText == [isStr |-> FALSE, truthy |-> FALSE, toks |-> <<>>]
NumberText == [isStr |-> FALSE, truthy |-> TRUE, toks |-> <<>>]

\* str.lower() on the words of the model
Lower(w) ==
    CASE w \in {"Expires", "EXPIRES"} -> "expires"
      [] w = "Expiry" -> "expiry"
      [] w = "Closing" -> "closing"
      [] w \in {"Posted", "POSTED"} -> "posted"
      [] w = "Deadline" -> "deadline"
      [] w = "Harare" -> "harare"
      [] w = "N/A" -> "n/a"
      [] OTHER -> w

----------------------------------------------------------------------------
\* parse_expiry_date and is_job_current

\* timedelta(days=30)
GraceDays == 30

\* re.sub(r'^(expires|expiry|closing|closing date)[:\s-]*', '', text, flags=re.I):
\* the alternation takes "closing" before "closing date", so of "Closing date" only
\* "Closing" is removed
StripPrefix(toks) ==
    IF toks # <<>> /\ toks[1].k = "word" /\ Lower(toks[1].w) \in {"expires", "expiry", "closing"}
    THEN Tail(toks)
    ELSE toks

\* re.search(r'posted', text, flags=re.I)
ContainsPosted(toks) ==
    \E i \in 1..Len(toks) : toks[i].k = "word" /\ Lower(toks[i].w) = "posted"

\* re.search(r'([A-Za-z]{3,9}\s+\d{1,2},?\s+\d{4})', text): the first substring made of a
\* word, a day and a four-digit year, or no match (a word token)
SearchMonthDayYear(toks) ==
    LET hits == {i \in 1..Len(toks) :
                    toks[i].k = "date" /\ toks[i].f \in {"B d, Y", "B d Y", "b d, Y", "X d, Y"}}
    IN  IF hits = {} THEN Word("")
        ELSE toks[CHOOSE i \in hits : \A j \in hits : i <= j]

\* s.replace(',', '') on a date-like substring
RemoveCommas(tok) ==
    IF tok.f = "B d, Y" THEN [tok EXCEPT !.f = "B d Y"]
    ELSE IF tok.f = "b d, Y" THEN [tok EXCEPT !.f = "b d Y"]
    ELSE IF tok.f = "X d, Y" THEN [tok EXCEPT !.f = "X d Y"]
    ELSE tok

\* datetime.strptime(s, fmt) for the formats of the code, commas removed from both:
\* the date, or NoDate where strptime raises ValueError
Strptime(tok, fmt) ==
    LET layout == CASE fmt = "%B %d %Y" -> "B d Y"
                    [] fmt = "%b %d %Y" -> "b d Y"
                    [] fmt = "%d %B %Y" -> "d B Y"
                    [] fmt = "%d %b %Y" -> "d b Y"
                    [] fmt = "%Y-%m-%d" -> "Y-m-d"
                    [] OTHER -> "?"
    IN  IF tok.k = "date" /\ tok.f = layout /\ ValidDate(tok.y, tok.m, tok.d)
        THEN Date(tok.y, tok.m, tok.d)
        ELSE NoDate

\* for fmt in (...): try: return strptime(...) except Exception: continue
RECURSIVE TryFormats(_, _)
TryFormats(tok, fmts) ==
    IF fmts = <<>> THEN NoDate
    ELSE IF Strptime(tok, Head(fmts)) # NoDate THEN Strptime(tok, Head(fmts))
    ELSE TryFormats(tok, Tail(fmts))

\* the 'posted' branch: the matched date as the posted date
PostedDate(toks) ==
    TryFormats(RemoveCommas(SearchMonthDayYear(toks)),
               <<"%B %d %Y", "%b %d %Y", "%d %B %Y", "%d %b %Y">>)

\* the direct branch: the whole text, cleaned of punctuation and commas, against each format
DirectDate(toks) ==
    IF Len(toks) = 1
    THEN TryFormats(RemoveCommas(toks[1]),
                    <<"%B %d %Y", "%b %d %Y", "%d %B %Y", "%d %b %Y", "%Y-%m-%d">>)
    ELSE NoDate

\* the generic branch: a "Month D, YYYY" substring
GenericDate(toks) ==
    TryFormats(RemoveCommas(SearchMonthDayYear(toks)), <<"%B %d %Y", "%b %d %Y">>)

\* (mutant) the posted date returned without the 30 days
ParseExpiryDateNoGrace(text) ==
    IF ~text.truthy \/ ~text.isStr THEN NoDate
    ELSE LET toks == StripPrefix(text.toks)
         IN  IF ContainsPosted(toks) /\ PostedDate(toks) # NoDate
             THEN PostedDate(toks)
             ELSE IF DirectDate(toks) # NoDate THEN DirectDate(toks)
             ELSE GenericDate(toks)

\* parse_expiry_date(expiry_text): a date, or NoDate for None
ParseExpiryDate(text) ==
    IF ~text.truthy \/ ~text.isStr THEN NoDate
    ELSE LET toks == StripPrefix(text.toks)
         IN  IF ContainsPosted(toks) /\ PostedDate(toks) # NoDate
             THEN AddDays(PostedDate(toks), GraceDays)
             ELSE IF DirectDate(toks) # NoDate THEN DirectDate(toks)
             ELSE GenericDate(toks)

\* (mutant) the fail-open policy of the earlier revision: no date, so current
IsJobCurrentFailOpen(text, now) ==
    IF ParseExpiryDate(text) = NoDate THEN TRUE
    ELSE DateGE(ParseExpiryDate(text), now)

\* is_job_current(expiry_text), with now = datetime.now().date()
IsJobCurrent(text, now) ==
    IF ParseExpiryDate(text) = NoDate THEN FALSE
    ELSE DateGE(ParseExpiryDate(text), now)

\* ---- the texts and dates the functions are applied to
Years == {2024, 2025}
Months == {1, 2, 8, 12}
Days == {1, 28, 29, 30, 31}
Layouts == {"B d, Y", "B d Y", "b d, Y", "d B Y", "d b Y", "Y-m-d", "d/m/Y", "X d, Y"}

DateToks == {DateTok(f, y, m, d) : f \in Layouts, y \in Years, m \in Months, d \in Days}

Prefixes ==
    { <<>>, <<Word("Expires")>>, <<Word("Expiry")>>, <<Word("Closing")>>,
      <<Word("Closing"), Word("date")>>, <<Word("Posted"), Word("on")>>,
      <<Word("POSTED")>>, <<Word("Deadline")>>, <<Word("Expires"), Word("on")>> }

Suffixes == { <<>>, <<Word("Harare")>> }

Texts ==
    {Str(p \o <<t>> \o s) : p \in Prefixes, t \in DateToks, s \in Suffixes}
    \cup {Str(p \o s) : p \in Prefixes, s \in Suffixes}
    \cup {Str(<<Word("garbage")>>), Str(<<Word("N/A")>>), NoneText, NumberText}

Todays == {Date(2025, 8, 31), Date(2025, 9, 1), Date(2024, 2, 29)}

DateOff ==
    /\ dpc = "off"
    /\ expiry_text = NoneText
    /\ today = NoDate
    /\ expiry_date = NoDate
    /\ is_current = FALSE

\* expiry_date = parse_expiry_date(expiry_text)
CallParseExpiryDate ==
    /\ dpc = "input"
    /\ expiry_date' = ParseExpiryDate(expiry_text)
    /\ dpc' = "parsed"
    /\ UNCHANGED <<expiry_text, today, is_current, runVars, pageVars, textVars>>

\* is_job_current(expiry_text)
CallIsJobCurrent ==
    /\ dpc = "parsed"
    /\ is_current' = IsJobCurrent(expiry_text, today)
    /\ dpc' = "checked"
    /\ UNCHANGED <<expiry_text, today, expiry_date, runVars, pageVars, textVars>>

----------------------------------------------------------------------------
\* The concrete adapters' scrape_page(url, page_num)

\* An item of a fetched page, as the adapter's selectors find it (a job element, a
\* heading, a candidate element or a link):
\*   text    the text the adapter reads the item's date from
\*   shape   "ok"
\*           "skip"          the item fails the adapter's plausibility tests
\*           "broken"        processing the item raises (a missing tag, a NameError)
\*           "detail_fails"  the request for the item's detail page fails
Item(text, shape) == [text |-> text, shape |-> shape]

\* A listing, reduced to its position on the page and its "Expiry Date" field
Listing(site, p, index, expiry) ==
    [site |-> site, page |-> p, index |-> index, expiry |-> expiry]

\* the string "N/A"
NotAvailable == Str(<<Word("N/A")>>)

\* clean_text on a text of the model, whose tokens are ASCII and carry no outer blanks
CleanText(text) == IF text.isStr THEN Str(text.toks) ELSE text

\* f"Expires {d.strftime('%B %d, %Y')}"
ExpiresDisplay(dt) == Str(<<Word("Expires"), DateTok("B d, Y", dt.y, dt.m, dt.d)>>)

\* What the body of scrape_page comes to: a return of (jobs, doc) or an exception;
\* errors are the kinds of errors met on the way ("fetch", "item", "detail")
PageReturn(jobs, doc, errors) ==
    [jobs |-> jobs, doc |-> doc, raised |-> FALSE, errors |-> errors]

PageRaise(errors) ==
    [jobs |-> <<>>, doc |-> NoneDoc, raised |-> TRUE, errors |-> errors]

\* (mutant) no outer handler: the exception leaves scrape_page
PropagateException(out) == out

\* except Exception as e: logging.error(...); return [], None
CatchException(out) ==
    IF out.raised THEN PageReturn(<<>>, NoneDoc, out.errors) ELSE out

\* requests.get(...) and raise_for_status() on the results page. http is
\*   "ok"           the request is answered with a 200
\*   "error"        the request raises, or raise_for_status() does
\*   "retry_ok"     RecruitmentMatters: the first answer is no 200 (or is empty), the
\*                  answer to the request for page/N/ is a 200
\*   "retry_error"  RecruitmentMatters: the first answer is no 200, the request for
\*                  page/N/ fails as well
FetchFails(content) == content.http \in {"error", "retry_error"}

\* an HTTP request for results page p and how it ended: "ok", "status" (an answer that
\* is no 200) or "failed" (an exception, raise_for_status() included)
Request(p, outcome) == [page |-> p, outcome |-> outcome]

\* r = requests.get(self.base_url, params=params); if r.status_code != 200 or not r.text:
\* r = requests.get(page_url); r.raise_for_status()
RecruitmentMatterRequests(content, p) ==
    CASE content.http = "ok" -> <<Request(p, "ok")>>
      [] content.http = "error" -> <<Request(p, "failed")>>
      [] content.http = "retry_ok" -> <<Request(p, "status"), Request(p, "ok")>>
      [] content.http = "retry_error" -> <<Request(p, "status"), Request(p, "failed")>>

\* response = requests.get(page_url, ...); response.raise_for_status()
ResultsPageRequests(site, content, p) ==
    IF site = "RecruitmentMatters" THEN RecruitmentMatterRequests(content, p)
    ELSE <<Request(p, IF FetchFails(content) THEN "failed" ELSE "ok")>>

\* ---- VacancyMailScraper.scrape_page

\* (mutant) no currency test
VacancyMailKeepAll(text, now) == TRUE

\* if is_job_current(expiry_date)
VacancyMailKeep(text, now) == IsJobCurrent(text, now)

\* the for loop over job_listings from item i on. A job element without the expected
\* tags raises out of the loop; extract_email_from_job_page turns a failed detail
\* request into "N/A"
RECURSIVE VacancyMailLoop(_, _, _, _, _, _)
VacancyMailLoop(items, i, now, p, jobs, errors) ==
    IF i > Len(items) THEN PageReturn(jobs, Doc("VacancyMail", p), errors)
    ELSE IF items[i].shape = "broken" THEN PageRaise(errors \cup {"item"})
    ELSE IF VacancyMailKeep(items[i].text, now)
         THEN VacancyMailLoop(items, i + 1, now, p,
                  Append(jobs, Listing("VacancyMail", p, i, CleanText(items[i].text))),
                  IF items[i].shape = "detail_fails" THEN errors \cup {"detail"} ELSE errors)
         ELSE VacancyMailLoop(items, i + 1, now, p, jobs, errors)

VacancyMailPage(content, p, now) ==
    CatchException(
        IF FetchFails(content) THEN PageRaise({"fetch"})
        ELSE VacancyMailLoop(content.items, 1, now, p, <<>>, {}))

\* ---- JobsZimbabweScraper.scrape_page

\* date_match: 'Posted on <Month D, YYYY>' anywhere in the parent's text, else the first
\* 'Month D, YYYY'; date_text is the whole match, "" without one
DateText(toks) ==
    LET mdy(tok) == tok.k = "date" /\ tok.f \in {"B d, Y", "B d Y", "b d, Y", "X d, Y"}
        posted == {i \in 1..(Len(toks) - 2) :
                      /\ toks[i].k = "word" /\ Lower(toks[i].w) = "posted"
                      /\ toks[i + 1].k = "word" /\ Lower(toks[i + 1].w) = "on"
                      /\ mdy(toks[i + 2])}
        dates == {i \in 1..Len(toks) : mdy(toks[i])}
        first(S) == CHOOSE i \in S : \A j \in S : i <= j
    IN  IF posted # {} THEN Str(SubSeq(toks, first(posted), first(posted) + 2))
        ELSE IF dates # {} THEN Str(<<toks[first(dates)]>>)
        ELSE Str(<<>>)

\* include_job: parsed_expiry and parsed_expiry >= datetime.now().date()
IncludeJob(date_text, now) ==
    /\ date_text.truthy
    /\ ParseExpiryDate(date_text) # NoDate
    /\ DateGE(ParseExpiryDate(date_text), now)

\* the for loop over job_headings from item i on; each heading in its own try
RECURSIVE JobsZimbabweLoop(_, _, _, _, _, _)
JobsZimbabweLoop(items, i, now, p, jobs, errors) ==
    IF i > Len(items) THEN PageReturn(jobs, Doc("Jobs Zimbabwe", p), errors)
    ELSE IF items[i].shape = "skip" THEN JobsZimbabweLoop(items, i + 1, now, p, jobs, errors)
    ELSE IF items[i].shape = "broken"
         THEN JobsZimbabweLoop(items, i + 1, now, p, jobs, errors \cup {"item"})
    ELSE IF IncludeJob(DateText(items[i].text.toks), now)
         THEN JobsZimbabweLoop(items, i + 1, now, p,
                  Append(jobs, Listing("Jobs Zimbabwe", p, i,
                      CleanText(ExpiresDisplay(ParseExpiryDate(DateText(items[i].text.toks)))))),
                  IF items[i].shape = "detail_fails" THEN errors \cup {"detail"} ELSE errors)
         ELSE JobsZimbabweLoop(items, i + 1, now, p, jobs, errors)

JobsZimbabwePage(content, p, now) ==
    CatchException(
        IF FetchFails(content) THEN PageRaise({"fetch"})
        ELSE JobsZimbabweLoop(content.items, 1, now, p, <<>>, {}))

\* ---- ZimboJobsScraper.scrape_page

\* the loop over script_tags. A JSON-LD block is "posting" (an object of @type
\* JobPosting), "other" (anything else, a list of postings included: the test of line
\* 789 sits under isinstance(data, dict)) or "broken" (json.loads or _parse_json_job
\* raises; bare except: continue). _parse_json_job is given job index 0 and sets
\* "Expiry Date" to "N/A"
RECURSIVE JsonJobs(_, _, _)
JsonJobs(scripts, i, p) ==
    IF i > Len(scripts) THEN <<>>
    ELSE (IF scripts[i] = "posting" THEN <<Listing("ZimboJobs", p, 1, NotAvailable)>> ELSE <<>>)
         \o JsonJobs(scripts, i + 1, p)

JsonErrors(scripts) ==
    IF \E i \in 1..Len(scripts) : scripts[i] = "broken" THEN {"item"} ELSE {}

\* the fallback entry "Jobs Available - Visit ZimboJobs.com"
Placeholder(p) == Listing("ZimboJobs", p, 1, NotAvailable)

\* the loops over possible_job_containers. An element that passes the tests reaches
\* the dict of line 838, whose clean_text(expiry_date) is a NameError; the handler of
\* line 863 names job_index, a second NameError, which leaves both loops
ZimboJobsHtml(items, p, errors) ==
    IF \E i \in 1..Len(items) : items[i].shape # "skip"
    THEN PageRaise(errors \cup {"item"})
    ELSE PageReturn(<<Placeholder(p)>>, Doc("ZimboJobs", p), errors)

ZimboJobsPage(content, p) ==
    CatchException(
        IF FetchFails(content) THEN PageRaise({"fetch"})
        ELSE IF JsonJobs(content.scripts, 1, p) # <<>>
             THEN PageReturn(JsonJobs(content.scripts, 1, p), Doc("ZimboJobs", p),
                             JsonErrors(content.scripts))
             ELSE ZimboJobsHtml(content.items, p, JsonErrors(content.scripts)))

\* ---- VacancyBoxScraper.scrape_page and RecruitmentMatterScraper.scrape_page

\* m_post / m_post2: the 'Month D, YYYY' that follows 'Posted on' or 'Posted', or no
\* match (a word token)
PostedText(toks) ==
    LET mdy(tok) == tok.k = "date" /\ tok.f \in {"B d, Y", "B d Y", "b d, Y", "X d, Y"}
        isWord(i, w) == toks[i].k = "word" /\ Lower(toks[i].w) = w
        m_post == {i \in 3..Len(toks) :
                      mdy(toks[i]) /\ isWord(i - 1, "on") /\ isWord(i - 2, "posted")}
        m_post2 == {i \in 2..Len(toks) : mdy(toks[i]) /\ isWord(i - 1, "posted")}
        first(S) == CHOOSE i \in S : \A j \in S : i <= j
    IN  IF m_post # {} THEN toks[first(m_post)]
        ELSE IF m_post2 # {} THEN toks[first(m_post2)]
        ELSE Word("")

\* strptime(posted.replace(',', ''), '%B %d %Y') + timedelta(days=30), shown as
\* "Expires ...", or "N/A" where there is no posted date or strptime raises
PostedExpiry(tok) ==
    IF Strptime(RemoveCommas(tok), "%B %d %Y") # NoDate
    THEN ExpiresDisplay(AddDays(Strptime(RemoveCommas(tok), "%B %d %Y"), GraceDays))
    ELSE NotAvailable

\* the for loop over the de-duplicated candidates from item i on; each in its own try.
\* "skip": a title under 3 characters or a job URL seen before
RECURSIVE VacancyBoxLoop(_, _, _, _, _)
VacancyBoxLoop(items, i, p, jobs, errors) ==
    IF i > Len(items) THEN [jobs |-> jobs, errors |-> errors]
    ELSE IF items[i].shape = "skip" THEN VacancyBoxLoop(items, i + 1, p, jobs, errors)
    ELSE IF items[i].shape = "broken"
         THEN VacancyBoxLoop(items, i + 1, p, jobs, errors \cup {"item"})
    ELSE VacancyBoxLoop(items, i + 1, p,
             Append(jobs, Listing("VacancyBox", p, i, PostedExpiry(PostedText(items[i].text.toks)))),
             IF items[i].shape = "detail_fails" THEN errors \cup {"detail"} ELSE errors)

\* the final fallback: one listing with expiry "N/A" per '/job/' link
FallbackLinks(links, p) == [i \in 1..links |-> Listing("VacancyBox", p, i, NotAvailable)]

VacancyBoxPage(content, p) ==
    CatchException(
        IF FetchFails(content) THEN PageRaise({"fetch"})
        ELSE LET loop == VacancyBoxLoop(content.items, 1, p, <<>>, {})
             IN  IF loop.jobs = <<>>
                 THEN PageReturn(FallbackLinks(content.links, p), Doc("VacancyBox", p), loop.errors)
                 ELSE PageReturn(loop.jobs, Doc("VacancyBox", p), loop.errors))

\* m_date: the first '[A-Z][a-z]+ D, YYYY' of the detail page's text, or no match
FirstDate(toks) ==
    LET hits == {i \in 1..Len(toks) :
                    toks[i].k = "date" /\ toks[i].f \in {"B d, Y", "B d Y", "b d, Y", "X d, Y"}}
    IN  IF hits = {} THEN Word("")
        ELSE toks[CHOOSE i \in hits : \A j \in hits : i <= j]

\* the for loop over found_links from item i on; each link in its own try, which also
\* holds the request for the detail page
RECURSIVE RecruitmentMatterLoop(_, _, _, _, _)
RecruitmentMatterLoop(items, i, p, jobs, errors) ==
    IF i > Len(items) THEN PageReturn(jobs, Doc("RecruitmentMatters", p), errors)
    ELSE IF items[i].shape = "detail_fails"
         THEN RecruitmentMatterLoop(items, i + 1, p, jobs, errors \cup {"detail"})
    ELSE IF items[i].shape = "broken"
         THEN RecruitmentMatterLoop(items, i + 1, p, jobs, errors \cup {"item"})
    ELSE RecruitmentMatterLoop(items, i + 1, p,
             Append(jobs, Listing("RecruitmentMatters", p, i,
                                  PostedExpiry(FirstDate(items[i].text.toks)))),
             errors)

\* http "retry_ok": the first request is not a 200, the one for page/N/ is
RecruitmentMatterPage(content, p) ==
    CatchException(
        IF FetchFails(content) THEN PageRaise({"fetch"})
        ELSE RecruitmentMatterLoop(content.items, 1, p, <<>>, {}))

\* ---- the pages scrape_page is applied to
MaxItems == 2

\* the run date of the page fetches
RunDate == Date(2025, 8, 31)

PageDates == {Date(2025, 7, 31), Date(2025, 8, 1), Date(2025, 9, 1)}

PageTexts ==
    {Str(p \o <<DateTok("B d, Y", dt.y, dt.m, dt.d)>>) :
        p \in {<<>>, <<Word("Expires")>>, <<Word("Posted"), Word("on")>>}, dt \in PageDates}
    \cup {Str(<<Word("Posted"), Word("on"), DateTok("b d, Y", 2025, 8, 1)>>), NotAvailable}

ShapesOf(site) ==
    CASE site = "VacancyMail" -> {"ok", "broken", "detail_fails"}
      [] site = "Jobs Zimbabwe" -> {"ok", "skip", "broken", "detail_fails"}
      [] site = "ZimboJobs" -> {"ok", "skip", "broken"}
      [] site = "VacancyBox" -> {"ok", "skip", "broken", "detail_fails"}
      [] site = "RecruitmentMatters" -> {"ok", "broken", "detail_fails"}

\* the text matters where the item is read: an "ok" item or one whose detail page fails
ItemsOf(site) ==
    {Item(t, s) : t \in (IF site = "ZimboJobs" THEN {NotAvailable} ELSE PageTexts),
                  s \in ShapesOf(site) \cap {"ok", "detail_fails"}}
    \cup {Item(NotAvailable, s) : s \in ShapesOf(site) \cap {"skip", "broken"}}

SeqsUpTo(S, n) == UNION {[1..k -> S] : k \in 0..n}

Content(http, items, scripts, links) ==
    [http |-> http, items |-> items, scripts |-> scripts, links |-> links]

ContentsOf(site) ==
    {Content(h, <<>>, <<>>, 0) :
        h \in (IF site = "RecruitmentMatters" THEN {"error", "retry_error"} ELSE {"error"})}
    \cup {Content(h, is, sc, l) :
            h \in (IF site = "RecruitmentMatters" THEN {"ok", "retry_ok"} ELSE {"ok"}),
            is \in SeqsUpTo(ItemsOf(site), MaxItems),
            sc \in (IF site = "ZimboJobs"
                    THEN SeqsUpTo({"posting", "other", "broken"}, MaxItems) ELSE {<<>>}),
            l \in (IF site = "VacancyBox" THEN {0, 1} ELSE {0})}

\* scrape_page has not been called
PageOff ==
    /\ ppc = "off"
    /\ page_site = ""
    /\ arg_page_num = 0
    /\ page_content = Content("error", <<>>, <<>>, 0)
    /\ page_result = PageReturn(<<>>, NoneDoc, {})
    /\ page_requests = <<>>

VacancyMailScrapePage ==
    /\ ppc = "input"
    /\ page_site = "VacancyMail"
    /\ page_result' = VacancyMailPage(page_content, arg_page_num, today)
    /\ page_requests' = ResultsPageRequests(page_site, page_content, arg_page_num)
    /\ ppc' = "returned"
    /\ UNCHANGED <<page_site, arg_page_num, page_content, runVars, dateVars, textVars>>

JobsZimbabweScrapePage ==
    /\ ppc = "input"
    /\ page_site = "Jobs Zimbabwe"
    /\ page_result' = JobsZimbabwePage(page_content, arg_page_num, today)
    /\ page_requests' = ResultsPageRequests(page_site, page_content, arg_page_num)
    /\ ppc' = "returned"
    /\ UNCHANGED <<page_site, arg_page_num, page_content, runVars, dateVars, textVars>>

ZimboJobsScrapePage ==
    /\ ppc = "input"
    /\ page_site = "ZimboJobs"
    /\ page_result' = ZimboJobsPage(page_content, arg_page_num)
    /\ page_requests' = ResultsPageRequests(page_site, page_content, arg_page_num)
    /\ ppc' = "returned"
    /\ UNCHANGED <<page_site, arg_page_num, page_content, runVars, dateVars, textVars>>

VacancyBoxScrapePage ==
    /\ ppc = "input"
    /\ page_site = "VacancyBox"
    /\ page_result' = VacancyBoxPage(page_content, arg_page_num)
    /\ page_requests' = ResultsPageRequests(page_site, page_content, arg_page_num)
    /\ ppc' = "returned"
    /\ UNCHANGED <<page_site, arg_page_num, page_content, runVars, dateVars, textVars>>

RecruitmentMatterScrapePage ==
    /\ ppc = "input"
    /\ page_site = "RecruitmentMatters"
    /\ page_result' = RecruitmentMatterPage(page_content, arg_page_num)
    /\ page_requests' = ResultsPageRequests(page_site, page_content, arg_page_num)
    /\ ppc' = "returned"
    /\ UNCHANGED <<page_site, arg_page_num, page_content, runVars, dateVars, textVars>>

----------------------------------------------------------------------------
\* classify_job_category(title, description, company), on character strings

\* (mutant) text starts with keyword
IsPrefix(keyword, text) ==
    Len(keyword) <= Len(text) /\ SubSeq(text, 1, Len(keyword)) = keyword

\* keyword in text: text has keyword as a substring
In(keyword, text) ==
    \E i \in 1..(Len(text) - Len(keyword) + 1) : SubSeq(text, i, i + Len(keyword) - 1) = keyword

UpperLetters == "ABCDEFGHIJKLMNOPQRSTUVWXYZ"
LowerLetters == "abcdefghijklmnopqrstuvwxyz"

LowerChar(c) ==
    IF \E i \in 1..Len(UpperLetters) : SubSeq(UpperLetters, i, i) = c
    THEN LET i == CHOOSE i \in 1..Len(UpperLetters) : SubSeq(UpperLetters, i, i) = c
         IN  SubSeq(LowerLetters, i, i)
    ELSE c

\* str.lower() on an ASCII string
RECURSIVE StrLower(_)
StrLower(s) ==
    IF Len(s) = 0 THEN s
    ELSE LowerChar(SubSeq(s, 1, 1)) \o StrLower(SubSeq(s, 2, Len(s)))

\* categories = {...}: the taxonomy in the order of the dict, each category with its
\* four keyword lists
Categories ==
    <<
      [ name |-> "Finance & Banking",
        primary |-> <<"accountant", "accounting", "finance", "financial",
                      "audit", "auditor", "banking", "economist", "treasurer",
                      "cashier", "bookkeeper", "payroll", "tax", "budget",
                      "accounts", "financial analyst", "credit analyst",
                      "loan officer", "investment">>,
        secondary |-> <<"financial statements", "general ledger",
                        "accounts receivable", "accounts payable", "bank",
                        "credit", "loan", "investment", "portfolio",
                        "risk management">>,
        company_indicators |-> <<"bank", "financial", "finance", "credit",
                                 "investment", "insurance">>,
        exclusions |-> <<"software", "system development", "programming",
                         "IT support">> ],
      [ name |-> "IT & Technology",
        primary |-> <<"developer", "programmer", "software engineer", "IT",
                      "system administrator", "network", "database",
                      "web developer", "cybersecurity", "data scientist",
                      "technical support", "IT support", "software",
                      "hardware">>,
        secondary |-> <<"programming", "coding", "javascript", "python",
                        "java", "html", "css", "sql", "cloud", "server",
                        "network security", "application", "digital",
                        "technology">>,
        company_indicators |-> <<"tech", "software", "IT", "digital",
                                 "computer", "technology">>,
        exclusions |-> <<"accounting software", "financial system",
                         "payroll system">> ],
      [ name |-> "Healthcare",
        primary |-> <<"nurse", "doctor", "medical", "physician", "dentist",
                      "pharmacist", "therapist", "medical officer",
                      "health officer", "radiographer", "lab technician",
                      "midwife">>,
        secondary |-> <<"patient", "treatment", "clinical", "healthcare",
                        "medical", "hospital", "clinic", "pharmacy", "nursing",
                        "health", "diagnosis">>,
        company_indicators |-> <<"hospital", "clinic", "medical", "health",
                                 "pharmaceutical">>,
        exclusions |-> <<>> ],
      [ name |-> "Education & Training",
        primary |-> <<"teacher", "instructor", "lecturer", "professor",
                      "tutor", "trainer", "educational", "academic",
                      "facilitator", "principal", "headmaster">>,
        secondary |-> <<"education", "training", "school", "university",
                        "curriculum", "learning", "student", "teaching",
                        "classroom", "academic">>,
        company_indicators |-> <<"school", "university", "college",
                                 "education", "training">>,
        exclusions |-> <<>> ],
      [ name |-> "Sales & Marketing",
        primary |-> <<"sales", "marketing", "sales representative",
                      "marketing manager", "business development",
                      "sales executive", "marketing officer", "brand manager",
                      "sales manager">>,
        secondary |-> <<"customer", "client", "promotion", "advertising",
                        "brand", "retail", "commercial", "revenue", "target",
                        "campaign", "market">>,
        company_indicators |-> <<"retail", "marketing", "sales", "commercial">>,
        exclusions |-> <<>> ],
      [ name |-> "Human Resources",
        primary |-> <<"human resources", "HR", "recruitment", "hr officer",
                      "hr manager", "talent acquisition", "personnel",
                      "hr specialist">>,
        secondary |-> <<"employee", "benefits", "compensation", "workforce",
                        "people", "talent", "recruitment", "hiring",
                        "personnel">>,
        company_indicators |-> <<"hr", "human resources", "recruitment">>,
        exclusions |-> <<>> ],
      [ name |-> "Engineering",
        primary |-> <<"engineer", "engineering", "mechanical engineer",
                      "electrical engineer", "civil engineer",
                      "project engineer", "maintenance engineer",
                      "technical engineer">>,
        secondary |-> <<"mechanical", "electrical", "civil", "construction",
                        "maintenance", "repair", "installation",
                        "infrastructure", "technical">>,
        company_indicators |-> <<"engineering", "construction",
                                 "manufacturing", "industrial">>,
        exclusions |-> <<"software engineer", "IT engineer">> ],
      [ name |-> "Administration",
        primary |-> <<"administrator", "admin", "secretary", "clerk",
                      "assistant", "receptionist", "administrative assistant",
                      "office manager", "data entry", "filing clerk">>,
        secondary |-> <<"office", "administrative", "support", "filing",
                        "coordination", "clerical", "reception">>,
        company_indicators |-> <<>>,
        exclusions |-> <<>> ],
      [ name |-> "Management",
        primary |-> <<"manager", "director", "supervisor", "head", "chief",
                      "executive", "team leader", "senior manager",
                      "general manager", "operations manager">>,
        secondary |-> <<"leadership", "management", "operations", "strategic",
                        "planning", "oversight", "coordination">>,
        company_indicators |-> <<>>,
        exclusions |-> <<>> ],
      [ name |-> "Legal",
        primary |-> <<"lawyer", "attorney", "legal officer", "paralegal",
                      "legal advisor", "legal counsel", "compliance officer">>,
        secondary |-> <<"legal", "law", "court", "judicial", "compliance",
                        "contract", "litigation", "regulation">>,
        company_indicators |-> <<"law firm", "legal", "court">>,
        exclusions |-> <<>> ],
      [ name |-> "Agriculture",
        primary |-> <<"agriculture", "farming", "farmer", "agricultural",
                      "veterinary", "agronomy", "extension officer",
                      "livestock">>,
        secondary |-> <<"crop", "livestock", "irrigation", "rural", "farming",
                        "agricultural">>,
        company_indicators |-> <<"agricultural", "farming", "livestock">>,
        exclusions |-> <<>> ],
      [ name |-> "NGO & Development",
        primary |-> <<"NGO", "development", "project officer",
                      "program officer", "community", "humanitarian",
                      "volunteer", "nonprofit">>,
        secondary |-> <<"social", "charity", "aid", "relief", "donor", "grant",
                        "development">>,
        company_indicators |-> <<"NGO", "foundation", "trust", "nonprofit",
                                 "charity">>,
        exclusions |-> <<>> ],
      [ name |-> "Consulting",
        primary |-> <<"consultant", "consulting", "advisory", "specialist",
                      "freelance", "contractor", "expert">>,
        secondary |-> <<"consultancy", "expertise", "advisory", "specialist">>,
        company_indicators |-> <<"consulting", "advisory">>,
        exclusions |-> <<>> ],
      [ name |-> "Transportation & Logistics",
        primary |-> <<"driver", "transport", "logistics", "delivery",
                      "shipping", "warehouse", "supply chain", "distribution">>,
        secondary |-> <<"fleet", "cargo", "transportation", "logistics",
                        "shipping">>,
        company_indicators |-> <<"transport", "logistics", "shipping",
                                 "delivery">>,
        exclusions |-> <<>> ],
      [ name |-> "Security",
        primary |-> <<"security", "guard", "security guard", "protection",
                      "surveillance">>,
        secondary |-> <<"safety", "risk", "emergency", "security">>,
        company_indicators |-> <<"security">>,
        exclusions |-> <<"IT security", "cybersecurity">> ]
    >>

RECURSIVE SumSeq(_)
SumSeq(points) == IF points = <<>> THEN 0 ELSE Head(points) + SumSeq(Tail(points))

\* (mutant) a primary keyword counted in the title and again in the description
PrimaryPointsBoth(keyword, title_lower, description_lower) ==
    (IF In(keyword, title_lower) THEN 10 ELSE 0)
    + (IF In(keyword, description_lower) THEN 8 ELSE 0)

\* if keyword in title_lower: score += 10 / elif keyword in description_lower: score += 8
PrimaryPoints(keyword, title_lower, description_lower) ==
    IF In(keyword, title_lower) THEN 10
    ELSE IF In(keyword, description_lower) THEN 8
    ELSE 0

\* += 3 in the title, elif += 2 in the description, elif += 1 in the company
SecondaryPoints(keyword, title_lower, description_lower, company_lower) ==
    IF In(keyword, title_lower) THEN 3
    ELSE IF In(keyword, description_lower) THEN 2
    ELSE IF In(keyword, company_lower) THEN 1
    ELSE 0

\* if indicator in company_lower: score += 5
IndicatorPoints(indicator, company_lower) == IF In(indicator, company_lower) THEN 5 ELSE 0

\* if exclusion in combined_text: score -= 3
ExclusionPoints(exclusion, combined_text) == IF In(exclusion, combined_text) THEN -3 ELSE 0

\* f"{title_lower} {description_lower} {company_lower}"
CombinedText(title_lower, description_lower, company_lower) ==
    title_lower \o " " \o description_lower \o " " \o company_lower

\* the body of the loop over categories.items(): the score of one category
Score(keywords, title_lower, description_lower, company_lower) ==
    SumSeq([i \in 1..Len(keywords.primary) |->
               PrimaryPoints(keywords.primary[i], title_lower, description_lower)])
    + SumSeq([i \in 1..Len(keywords.secondary) |->
               SecondaryPoints(keywords.secondary[i], title_lower, description_lower, company_lower)])
    + SumSeq([i \in 1..Len(keywords.company_indicators) |->
               IndicatorPoints(keywords.company_indicators[i], company_lower)])
    + SumSeq([i \in 1..Len(keywords.exclusions) |->
               ExclusionPoints(keywords.exclusions[i],
                               CombinedText(title_lower, description_lower, company_lower))])

\* category_scores, by position in the dict
CategoryScores(job_title, job_description, job_company) ==
    LET title_lower == StrLower(job_title)
        description_lower == StrLower(job_description)
        company_lower == StrLower(job_company)
    IN  [c \in 1..Len(Categories) |->
            Score(Categories[c], title_lower, description_lower, company_lower)]

\* (mutant) the last category with the highest score
LastBestCategory(scores) ==
    CHOOSE c \in DOMAIN scores :
        /\ \A d \in DOMAIN scores : scores[d] <= scores[c]
        /\ \A d \in DOMAIN scores : d > c => scores[d] < scores[c]

\* max(category_scores, key=category_scores.get): the first key, in the order of the
\* dict, with the highest score
BestCategory(scores) ==
    CHOOSE c \in DOMAIN scores :
        /\ \A d \in DOMAIN scores : scores[d] <= scores[c]
        /\ \A d \in DOMAIN scores : d < c => scores[d] < scores[c]

\* any(word in text for word in words)
AnyIn(words, text) == \E w \in words : In(w, text)

\* (mutant) no fallback logic
FallbackOther(title_lower, combined_text) == "Other"

\* the fallback logic for common patterns, lines 270-287
Fallback(title_lower, combined_text) ==
    IF AnyIn({"accountant", "accounting", "finance", "financial"}, title_lower)
    THEN "Finance & Banking"
    ELSE IF AnyIn({"manager", "director", "supervisor", "head"}, title_lower)
    THEN "Management"
    ELSE IF AnyIn({"assistant", "clerk", "secretary", "admin"}, title_lower)
    THEN "Administration"
    ELSE IF AnyIn({"officer", "coordinator"}, title_lower)
    THEN IF AnyIn({"health", "medical", "clinic"}, combined_text) THEN "Healthcare"
         ELSE IF AnyIn({"finance", "accounting", "bank"}, combined_text) THEN "Finance & Banking"
         ELSE IF AnyIn({"project", "program", "development"}, combined_text)
         THEN "NGO & Development"
         ELSE "Administration"
    ELSE "Other"

\* (mutant) nothing returned without a meaningful score
MeaningfulOrNone(scores, fallback) ==
    IF scores[BestCategory(scores)] > 0 THEN Categories[BestCategory(scores)].name ELSE "None"

\* if max_score > 0: return best_category, else the fallback logic
MeaningfulOrFallback(scores, fallback) ==
    IF scores[BestCategory(scores)] > 0 THEN Categories[BestCategory(scores)].name ELSE fallback

ClassifyJobCategory(job_title, job_description, job_company) ==
    MeaningfulOrFallback(
        CategoryScores(job_title, job_description, job_company),
        Fallback(StrLower(job_title),
                 CombinedText(StrLower(job_title), StrLower(job_description), StrLower(job_company))))

\* ---- the texts classify_job_category is applied to
PrimaryKeywords ==
    UNION {{Categories[c].primary[i] : i \in 1..Len(Categories[c].primary)} :
              c \in 1..Len(Categories)}

Titles ==
    {"", "Senior Accountant", "Program Coordinator", "Coordinator", "Field Officer",
     "Teacher Nurse", "Software Engineer", "IT Security Guard", "System"}

Descriptions ==
    {"", "Prepare financial statements", "development of accounting software",
     "Cybersecurity programming"}

Companies == {"", "ABC Bank", "XYZ Accounting", "HR"}

ClassifyInputs ==
    {<<k, "", "">> : k \in PrimaryKeywords} \cup (Titles \X Descriptions \X Companies)

\* classify_job_category has not been called
ClassifyOff ==
    /\ cpc = "off"
    /\ title = ""
    /\ description = ""
    /\ company = ""
    /\ category_scores = [c \in 1..Len(Categories) |-> 0]
    /\ category = ""
    /\ category_again = ""

\* category = classify_job_category(title, description, company)
CallClassifyJobCategory ==
    /\ cpc = "input"
    /\ category_scores' = CategoryScores(title, description, company)
    /\ category' = MeaningfulOrFallback(
                       category_scores',
                       Fallback(StrLower(title),
                                CombinedText(StrLower(title), StrLower(description),
                                             StrLower(company))))
    /\ cpc' = "classified"
    /\ UNCHANGED <<title, description, company, category_again, cleanVars, listVars,
                   callVars, runVars, dateVars, pageVars>>

\* a second call with the same arguments
CallClassifyJobCategoryAgain ==
    /\ cpc = "classified"
    /\ category_again' = ClassifyJobCategory(title, description, company)
    /\ cpc' = "again"
    /\ UNCHANGED <<title, description, company, category_scores, category, cleanVars, listVars,
                   callVars, runVars, dateVars, pageVars>>

----------------------------------------------------------------------------
\* clean_text(text), on strings as sequences of code points

\* a str, or an object that is no str
PyStr(cps) == [isStr |-> TRUE, cps |-> cps]
NotAStr == [isStr |-> FALSE, cps |-> <<>>]

\* the replace calls of lines 23-27 on one code point: en dash and em dash to '-',
\* curly single quotes to ', curly double quotes to ", the ellipsis to nothing
ReplaceCodePoint(c) ==
    CASE c \in {8211, 8212} -> <<45>>
      [] c \in {8216, 8217} -> <<39>>
      [] c \in {8220, 8221} -> <<34>>
      [] c = 8230 -> <<>>
      [] OTHER -> <<c>>

RECURSIVE ReplaceAll(_)
ReplaceAll(cps) ==
    IF cps = <<>> THEN <<>> ELSE ReplaceCodePoint(Head(cps)) \o ReplaceAll(Tail(cps))

\* re.sub(r'[^\x00-\x7F]+', '', text)
IsAscii(c) == c \in 0..127
RemoveNonAscii(cps) == SelectSeq(cps, IsAscii)

\* the code points str.strip() removes, of those re.sub leaves: \t \n \v \f \r,
\* the separators 0x1C-0x1F and the blank
StripSet == (9..13) \cup (28..32)

RECURSIVE LStrip(_)
LStrip(cps) == IF cps # <<>> /\ Head(cps) \in StripSet THEN LStrip(Tail(cps)) ELSE cps

RECURSIVE RStrip(_)
RStrip(cps) ==
    IF cps # <<>> /\ cps[Len(cps)] \in StripSet THEN RStrip(SubSeq(cps, 1, Len(cps) - 1))
    ELSE cps

\* text.strip() on an ASCII string
Strip(cps) == RStrip(LStrip(cps))

\* (mutant) the blanks stripped before the non-ASCII code points are removed
clean_text_strip_first(text) ==
    IF ~text.isStr THEN text
    ELSE PyStr(RemoveNonAscii(ReplaceAll(
             RStrip(LStrip(text.cps)))))

clean_text(text) ==
    IF ~text.isStr THEN text
    ELSE PyStr(Strip(RemoveNonAscii(ReplaceAll(text.cps))))

\* ---- the strings clean_text is applied to
MaxLen == 3

\* blank, tab, 0x1C, 'A', 'a', en dash, em dash, the curly quotes, the ellipsis,
\* e acute, the no-break space
CodePoints == {32, 9, 28, 65, 97, 8211, 8212, 8216, 8217, 8220, 8221, 8230, 233, 160}

RawTexts == {PyStr(cps) : cps \in UNION {[1..n -> CodePoints] : n \in 0..MaxLen}} \cup {NotAStr}

\* clean_text has not been called
CleanOff ==
    /\ kpc = "off"
    /\ raw_text = NotAStr
    /\ cleaned = NotAStr
    /\ cleaned_again = NotAStr

\* cleaned = clean_text(raw_text)
CallCleanText ==
    /\ kpc = "input"
    /\ cleaned' = clean_text(raw_text)
    /\ kpc' = "once"
    /\ UNCHANGED <<raw_text, cleaned_again, classVars, listVars, callVars, runVars, dateVars, pageVars>>

\* cleaned_again = clean_text(cleaned)
CallCleanTextAgain ==
    /\ kpc = "once"
    /\ cleaned_again' = clean_text(cleaned)
    /\ kpc' = "twice"
    /\ UNCHANGED <<raw_text, cleaned, classVars, listVars, callVars, runVars, dateVars, pageVars>>

\* the state of the functions on texts when none is called
----------------------------------------------------------------------------
\* The dict a listing is made of, jobs_data.append({...}), for each adapter and path

\* the printable ASCII characters from the blank (32) to the underscore (95), and from
\* a (97) to the tilde (126); the grave accent (96) cannot be written in a string here
AsciiTo95 ==
    " !\"#$%&'()*+,-./0123456789:;<=>?@ABCDEFGHIJKLMNOPQRSTUVWXYZ[\\]^_"

AsciiFrom97 == "abcdefghijklmnopqrstuvwxyz{|}~"

\* ord(ch)
Ord(ch) ==
    IF \E i \in 1..Len(AsciiTo95) : SubSeq(AsciiTo95, i, i) = ch
    THEN 31 + (CHOOSE i \in 1..Len(AsciiTo95) : SubSeq(AsciiTo95, i, i) = ch)
    ELSE 96 + (CHOOSE i \in 1..Len(AsciiFrom97) : SubSeq(AsciiFrom97, i, i) = ch)

\* the code points of a character string
CodePointsOf(chars) == [i \in 1..Len(chars) |-> Ord(SubSeq(chars, i, i))]

\* a string literal of the code
Lit(chars) == PyStr(CodePointsOf(chars))

\* chr(c) for the keyword tests of classify_job_category; a code point outside the two
\* tables, which no keyword contains, is shown as "?"
Chr(c) ==
    IF c \in 32..95 THEN SubSeq(AsciiTo95, c - 31, c - 31)
    ELSE IF c \in 97..126 THEN SubSeq(AsciiFrom97, c - 96, c - 96)
    ELSE "?"

\* the characters of a str
RECURSIVE CharsOf(_)
CharsOf(cps) == IF cps = <<>> THEN "" ELSE Chr(Head(cps)) \o CharsOf(Tail(cps))

\* str.lower() on code points: A-Z and the upper-case letters of Latin-1
LowerCodePoint(c) ==
    IF c \in 65..90 \/ c \in (192..222) \ {215} THEN c + 32 ELSE c

LowerCodePoints(cps) == [i \in 1..Len(cps) |-> LowerCodePoint(cps[i])]

\* the decimal digits of n, as code points
RECURSIVE Digits(_)
Digits(n) == IF n < 10 THEN <<48 + n>> ELSE Digits(n \div 10) \o <<48 + (n % 10)>>

\* format(n, '0<width>d')
RECURSIVE ZeroPad(_, _)
ZeroPad(cps, width) == IF Len(cps) >= width THEN cps ELSE ZeroPad(<<48>> \o cps, width)

\* datetime.now().strftime('%Y%m%d')
DateStamp(dt) == ZeroPad(Digits(dt.y), 4) \o ZeroPad(Digits(dt.m), 2) \o ZeroPad(Digits(dt.d), 2)

\* f"{prefix}_{page_num:03d}_{index:03d}_{datetime.now().strftime('%Y%m%d')}"
JobId(prefix, p, index, now) ==
    PyStr(CodePointsOf(prefix) \o <<95>> \o ZeroPad(Digits(p), 3) \o <<95>>
          \o ZeroPad(Digits(index), 3) \o <<95>> \o DateStamp(now))

\* the prefix of the ids of a site
IdPrefix(site) ==
    CASE site = "VacancyMail" -> "VM"
      [] site = "Jobs Zimbabwe" -> "JZ"
      [] site = "ZimboJobs" -> "ZJ"
      [] site = "VacancyBox" -> "VB"
      [] site = "RecruitmentMatters" -> "RM"

\* the id of a listing of a returned page
ListingId(job, now) == JobId(IdPrefix(job.site), job.page, job.index, now)

\* What the detail page of a job offers as an e-mail address:
\*   "none"     no address
\*   "text"     an ASCII address in the text of the page
\*   "long_s"   an address in the text with U+017F, a letter that [A-Za-z] matches only
\*              under re.IGNORECASE
\*   "mailto"   an address with a non-ASCII letter in the href of a mailto: link only
\*   "fails"    the request for the detail page fails
EmailSource(kind, cps) == [kind |-> kind, cps |-> cps]

\* extract_email_from_job_page of VacancyMail and Jobs Zimbabwe: the first match of the
\* ASCII pattern in the text of the page, or the fallback string
PlainEmail(source, fallback) ==
    IF source.kind = "text" THEN PyStr(source.cps) ELSE Lit(fallback)

\* extract_email_from_job_page of VacancyBox: the patterns under re.IGNORECASE, the
\* match lower-cased
VacancyBoxEmail(source) ==
    IF source.kind \in {"text", "long_s"} THEN PyStr(LowerCodePoints(source.cps))
    ELSE Lit("Apply on VacancyBox")

\* extract_email_from_job_page of RecruitmentMatters: the href of the first mailto:
\* link, lower-cased, else the patterns under re.I
RecruitmentMatterEmail(source) ==
    IF source.kind \in {"mailto", "text", "long_s"} THEN PyStr(LowerCodePoints(source.cps))
    ELSE Lit("Apply on RecruitmentMatters")

\* classify_job_category on the strings scraped
CategoryOf(job_title, job_description, job_company) ==
    Lit(ClassifyJobCategory(CharsOf(job_title.cps), CharsOf(job_description.cps),
                            CharsOf(job_company.cps)))

\* "Category": "General" of the placeholder of ZimboJobs
PlaceholderCategory == "General"

JobDict(id, job_title, job_company, location, job_description, job_category, expiry, site, email) ==
    [id |-> id, title |-> job_title, company |-> job_company, location |-> location,
     description |-> job_description, category |-> job_category, expiry |-> expiry,
     site |-> site, email |-> email]

\* no listing is appended
NoJob == [id |-> NotAStr]

\* strftime('%B')
MonthName(mo) ==
    <<"January", "February", "March", "April", "May", "June", "July", "August",
      "September", "October", "November", "December">>[mo]

\* f"Expires {dt.strftime('%B %d, %Y')}" as a str
ExpiresStr(dt) ==
    PyStr(CodePointsOf("Expires ") \o CodePointsOf(MonthName(dt.m)) \o <<32>>
          \o ZeroPad(Digits(dt.d), 2) \o <<44, 32>> \o ZeroPad(Digits(dt.y), 4))

\* expiry_date of VacancyBox and RecruitmentMatters: "N/A" unless a posted date was
\* found and parsed
ExpiresOrNotAvailable(dt) == IF dt = NoDate THEN Lit("N/A") ELSE ExpiresStr(dt)

\* text[:n]
Take(text, n) == PyStr(SubSeq(text.cps, 1, Min(Len(text.cps), n)))

\* location_words: the first city named in the text around the listing, else "Zimbabwe"
LocationWords ==
    {Lit("Harare"), Lit("Bulawayo"), Lit("Mutare"), Lit("Gweru"), Lit("Masvingo"),
     Lit("Chitungwiza"), Lit("Zimbabwe")}

LocationWord(location) == IF location \in LocationWords THEN location ELSE Lit("Zimbabwe")

\* What the adapter read for one listing, before the dict is built:
\*   title, company, location, description   the texts of the tags, as scraped
\*   expiry                                  the text of the expiry tag (VacancyMail)
\*   expiry_dt                               the date the adapter parsed (a posted date
\*                                           plus 30 days, or an expiry), NoDate if none
\*   email                                   what the detail page offers
\*   page, index                             page_num and the position in the loop, from 0
\* ---- VacancyMailScraper.scrape_page, the dict of a current listing
VacancyMailJob(s, now) ==
    JobDict(JobId("VM", s.page, s.index + 1, now),
            clean_text(s.title), clean_text(s.company), clean_text(s.location),
            clean_text(s.description),
            CategoryOf(s.title, s.description, s.company),
            clean_text(s.expiry), Lit("VacancyMail"), PlainEmail(s.email, "N/A"))

\* ---- JobsZimbabweScraper.scrape_page
JobsZimbabweDescription ==
    Lit("Job posted on Jobs Zimbabwe. Full details available on website.")

JobsZimbabweJob(s, now) ==
    JobDict(JobId("JZ", s.page, s.index + 1, now),
            clean_text(s.title), clean_text(s.company),
            clean_text(LocationWord(s.location)),
            clean_text(JobsZimbabweDescription),
            CategoryOf(s.title, JobsZimbabweDescription, s.company),
            clean_text(ExpiresStr(s.expiry_dt)), Lit("Jobs Zimbabwe"),
            PlainEmail(s.email, "Apply on Jobs Zimbabwe"))

\* ---- ZimboJobsScraper._parse_json_job(data, page_num, 0)
ZimboJobsJsonJob(s, job_index, now) ==
    JobDict(JobId("ZJ", s.page, job_index + 1, now),
            clean_text(s.title), clean_text(s.company), clean_text(s.location),
            clean_text(Take(s.description, 500)),
            CategoryOf(s.title, s.description, s.company),
            Lit("N/A"), Lit("ZimboJobs"), Lit("Apply on ZimboJobs"))

\* ---- ZimboJobsScraper.scrape_page, the fallback entry
ZimboJobsPlaceholderJob(p, now) ==
    JobDict(JobId("ZJ", p, 1, now),
            Lit("Jobs Available - Visit ZimboJobs.com"), Lit("Various Employers"),
            Lit("Zimbabwe"),
            Lit("Job listings may be loaded dynamically. Visit zimbojobs.com directly to view current opportunities."),
            Lit(PlaceholderCategory),
            Lit("N/A"), Lit("ZimboJobs"), Lit("Apply on ZimboJobs"))

\* ---- VacancyBoxScraper.scrape_page, a candidate element
VacancyBoxJob(s, now) ==
    JobDict(JobId("VB", s.page, s.index + 1, now),
            clean_text(s.title), clean_text(s.company),
            clean_text(LocationWord(s.location)),
            clean_text(Take(s.description, 400)),
            CategoryOf(s.title, Take(s.description, 400), s.company),
            ExpiresOrNotAvailable(s.expiry_dt), Lit("VacancyBox"),
            VacancyBoxEmail(s.email))

\* ---- VacancyBoxScraper.scrape_page, the final fallback over the '/job/' links
VacancyBoxFallbackJob(s, now) ==
    JobDict(JobId("VB", s.page, s.index + 1, now),
            clean_text(s.title), Lit("VacancyBox Employer"), Lit("Zimbabwe"),
            clean_text(Lit("Full details on VacancyBox")),
            CategoryOf(s.title, Lit("Full details on VacancyBox"), Lit("VacancyBox Employer")),
            Lit("N/A"), Lit("VacancyBox"), Lit("Apply on VacancyBox"))

\* ---- RecruitmentMatterScraper.scrape_page
RecruitmentMatterJob(s, now) ==
    JobDict(JobId("RM", s.page, s.index + 1, now),
            clean_text(s.title), clean_text(s.company), clean_text(s.location),
            clean_text(Take(s.description, 500)),
            CategoryOf(s.title, Take(s.description, 500), s.company),
            ExpiresOrNotAvailable(s.expiry_dt), Lit("RecruitmentMatters"),
            RecruitmentMatterEmail(s.email))

\* ---- the listings the dicts are built from
\* "Café Manager"
CafeManager == PyStr(CodePointsOf("Caf") \o <<233>> \o CodePointsOf(" Manager"))

\* "Nurse – Harare clinic", with an en dash
NurseDash == PyStr(CodePointsOf("Nurse ") \o <<8211>> \o CodePointsOf(" Harare clinic"))

\* "jobs@example.com", "jobſ@example.com" (U+017F), "josé@example.com" (U+00E9)
AsciiAddress == CodePointsOf("Jobs@Example.com")
LongSAddress == CodePointsOf("job") \o <<383>> \o CodePointsOf("@example.com")
AccentAddress == CodePointsOf("Jos") \o <<233>> \o CodePointsOf("@Example.com")

EmailSources ==
    {EmailSource("none", <<>>), EmailSource("fails", <<>>),
     EmailSource("text", AsciiAddress), EmailSource("long_s", LongSAddress),
     EmailSource("mailto", AccentAddress)}

ScrapedTitles == {Lit("Senior Accountant"), CafeManager}
ScrapedCompanies == {Lit("ABC Bank")}
ScrapedLocations == {Lit("Harare"), PyStr(<<72, 97, 114, 97, 114, 233>>)}
ScrapedDescriptions == {Lit("Full details on site"), NurseDash}
ScrapedExpiries ==
    {[text |-> Lit("Expires 30 September 2025"), dt |-> Date(2025, 9, 30)],
     [text |-> Lit("N/A"), dt |-> NoDate]}

Scraped ==
    {[title |-> t, company |-> c, location |-> l, description |-> d,
      expiry |-> e.text, expiry_dt |-> e.dt, email |-> m, page |-> pi[1], index |-> pi[2]] :
        t \in ScrapedTitles, c \in ScrapedCompanies, l \in ScrapedLocations,
        d \in ScrapedDescriptions, e \in ScrapedExpiries, m \in EmailSources,
        pi \in {<<1, 0>>, <<2, 11>>}}

\* no dict has been built
ListingOff ==
    /\ lpc = "off"
    /\ scraped = [title |-> NotAStr, company |-> NotAStr, location |-> NotAStr,
                  description |-> NotAStr, expiry |-> NotAStr, expiry_dt |-> NoDate,
                  email |-> EmailSource("none", <<>>), page |-> 0, index |-> 0]
    /\ job_dict = NoJob

\* is_job_current(expiry_date) holds of the listing: the date read is not in the past
VacancyMailAppend ==
    /\ lpc = "scraped"
    /\ scraped.expiry_dt # NoDate
    /\ DateGE(scraped.expiry_dt, today)
    /\ job_dict' = VacancyMailJob(scraped, today)
    /\ lpc' = "appended"
    /\ UNCHANGED <<scraped, classVars, cleanVars, callVars, runVars, dateVars, pageVars>>

\* include_job: a date was found, parsed, and is not in the past
JobsZimbabweAppend ==
    /\ lpc = "scraped"
    /\ scraped.expiry_dt # NoDate
    /\ DateGE(scraped.expiry_dt, today)
    /\ job_dict' = JobsZimbabweJob(scraped, today)
    /\ lpc' = "appended"
    /\ UNCHANGED <<scraped, classVars, cleanVars, callVars, runVars, dateVars, pageVars>>

\* jobs_data.append(self._parse_json_job(data, page_num, 0))
ZimboJobsJsonAppend ==
    /\ lpc = "scraped"
    /\ job_dict' = ZimboJobsJsonJob(scraped, 0, today)
    /\ lpc' = "appended"
    /\ UNCHANGED <<scraped, classVars, cleanVars, callVars, runVars, dateVars, pageVars>>

ZimboJobsPlaceholderAppend ==
    /\ lpc = "scraped"
    /\ job_dict' = ZimboJobsPlaceholderJob(scraped.page, today)
    /\ lpc' = "appended"
    /\ UNCHANGED <<scraped, classVars, cleanVars, callVars, runVars, dateVars, pageVars>>

VacancyBoxAppend ==
    /\ lpc = "scraped"
    /\ job_dict' = VacancyBoxJob(scraped, today)
    /\ lpc' = "appended"
    /\ UNCHANGED <<scraped, classVars, cleanVars, callVars, runVars, dateVars, pageVars>>

VacancyBoxFallbackAppend ==
    /\ lpc = "scraped"
    /\ job_dict' = VacancyBoxFallbackJob(scraped, today)
    /\ lpc' = "appended"
    /\ UNCHANGED <<scraped, classVars, cleanVars, callVars, runVars, dateVars, pageVars>>

RecruitmentMatterAppend ==
    /\ lpc = "scraped"
    /\ job_dict' = RecruitmentMatterJob(scraped, today)
    /\ lpc' = "appended"
    /\ UNCHANGED <<scraped, classVars, cleanVars, callVars, runVars, dateVars, pageVars>>

----------------------------------------------------------------------------
\* get_total_pages(soup) of the five adapters

\* An <a> of the document:
\*   text   "digit"        a decimal number, n (str.isdigit() holds, int() gives n)
\*          "superscript"  a digit that is no decimal, as U+00B2: isdigit() holds and
\*                         int() raises ValueError
\*          "last"         the word Last
\*          "word"         any other text
\*   href   ""             no href attribute
\*          "page="        '...?page=<n>'
\*          "/page/"       '.../page/<n>/'
\*          "paged="       '...?paged=<n>'
\*   n      the number of the text and of the href
Link(text, href, n) == [text |-> text, href |-> href, n |-> n]

\* The text of the document outside its links:
\*   "none"   no number
\*   "page"   'Page <n>'
\*   "plain"  the number n, none of the words page, next, previous around it
PageText(kind, n) == [kind |-> kind, n |-> n]

\* soup: whether a pagination container is found (ul, div or nav of class pagination),
\* the links in document order, the text outside the links
Soup(container, links, text) == [container |-> container, links |-> links, text |-> text]

Max(a, b) == IF a >= b THEN a ELSE b

\* how a call ends: return of n, or an exception that leaves the function
PagesReturn(n) == [raised |-> FALSE, n |-> n]
PagesRaise == [raised |-> TRUE, n |-> 0]

\* int(text) raises for the text of some link
IntRaises(links) == \E i \in 1..Len(links) : links[i].text = "superscript"

\* links = soup.find_all('a', href=True)
WithHref(links) == SelectSeq(links, LAMBDA l : l.href # "")

\* max over a sequence of numbers, 1 at least
RECURSIVE MaxOf(_, _)
MaxOf(ns, i) == IF i > Len(ns) THEN 1 ELSE Max(ns[i], MaxOf(ns, i + 1))

\* try: ... return n; except Exception: ...; return 1
PagesOrDefault(raises, n) == IF raises THEN PagesReturn(1) ELSE PagesReturn(n)

\* ---- VacancyMailScraper.get_total_pages: the links of the pagination container; no cap
VacancyMailLinkPage(l) ==
    IF l.text = "digit" THEN l.n
    ELSE IF l.text = "last" /\ l.href \in {"page=", "/page/"} THEN l.n
    ELSE IF l.text # "last" /\ l.href = "page=" THEN l.n
    ELSE 1

VacancyMailTotalPages(s) ==
    IF ~s.container THEN PagesReturn(1)
    ELSE PagesOrDefault(IntRaises(s.links),
                        MaxOf([i \in 1..Len(s.links) |-> VacancyMailLinkPage(s.links[i])], 1))

\* ---- JobsZimbabweScraper.get_total_pages: min(max_page, 20)
JobsZimbabweLinkPage(l) ==
    Max(IF l.href = "/page/" THEN l.n ELSE 1, IF l.text = "digit" THEN l.n ELSE 1)

JobsZimbabweTotalPages(s) ==
    LET links == WithHref(s.links)
        from_links == MaxOf([i \in 1..Len(links) |-> JobsZimbabweLinkPage(links[i])], 1)
        from_text == IF s.text.kind = "page" THEN s.text.n ELSE 1
    IN  PagesOrDefault(IntRaises(links), Min(Max(from_links, from_text), 20))

\* ---- ZimboJobsScraper.get_total_pages: min(max_page, 20)
ZimboJobsLinkPage(l) ==
    Max(IF l.text = "digit" THEN l.n ELSE 1, IF l.href = "page=" THEN l.n ELSE 1)

ZimboJobsTotalPages(s) ==
    LET links == WithHref(s.links)
    IN  PagesOrDefault(IntRaises(links),
            Min(MaxOf([i \in 1..Len(links) |-> ZimboJobsLinkPage(links[i])], 1), 20))

\* ---- VacancyBoxScraper.get_total_pages: the links with a href, the links of the
\* pagination container, the numbers from 2 to 100 of the text in a pagination context;
\* max_page > 100 becomes 100
VacancyBoxLinkPage(l) ==
    Max(IF l.text = "digit" /\ l.n > 0 THEN l.n ELSE 1, IF l.href = "/page/" THEN l.n ELSE 1)

VacancyBoxContainerPage(l) == IF l.text = "digit" THEN l.n ELSE 1

VacancyBoxTotalPages(s) ==
    LET links == WithHref(s.links)
        method1 == MaxOf([i \in 1..Len(links) |-> VacancyBoxLinkPage(links[i])], 1)
        method2 == IF s.container
                   THEN MaxOf([i \in 1..Len(s.links) |-> VacancyBoxContainerPage(s.links[i])], 1)
                   ELSE 1
        method3 == IF s.text.kind = "page" /\ s.text.n \in 2..100 THEN s.text.n ELSE 1
        max_page == Max(method1, Max(method2, method3))
    IN  PagesOrDefault(IntRaises(links) \/ (s.container /\ IntRaises(s.links)),
                       IF max_page > 100 THEN 100 ELSE max_page)

\* ---- RecruitmentMatterScraper.get_total_pages: min(max_page, 100)
RecruitmentMatterLinkPage(l) ==
    Max(IF l.text = "digit" THEN l.n ELSE 1, IF l.href \in {"/page/", "page=", "paged="} THEN l.n ELSE 1)

RecruitmentMatterTotalPages(s) ==
    LET links == WithHref(s.links)
    IN  PagesOrDefault(IntRaises(links),
            Min(MaxOf([i \in 1..Len(links) |-> RecruitmentMatterLinkPage(links[i])], 1), 100))

\* ---- the documents get_total_pages is applied to
MaxLinks == 2

\* page numbers: below every cap, between the caps of 20 and 100, above every cap
PageNumbers == {2, 25, 150}

Links ==
    {Link("digit", h, n) : h \in {"", "page="}, n \in PageNumbers}
    \cup {Link("word", h, n) : h \in {"page=", "/page/", "paged="}, n \in PageNumbers \ {2}}
    \cup {Link("last", h, 150) : h \in {"", "/page/", "paged="}}
    \cup {Link("superscript", h, 2) : h \in {"", "page="}}
    \cup {Link("word", "", 2), Link("digit", "page=", 0)}

\* the texts outside the links, which are far from them
PaginationTexts ==
    {PageText("none", 0), PageText("page", 25), PageText("page", 150), PageText("plain", 25)}

\* the container matters to VacancyMail and VacancyBox, the text to Jobs Zimbabwe and
\* VacancyBox
SoupsOf(site) ==
    {Soup(c, ls, t) :
        c \in (IF site \in {"VacancyMail", "VacancyBox"} THEN BOOLEAN ELSE {FALSE}),
        ls \in SeqsUpTo(Links, MaxLinks),
        t \in (IF site \in {"Jobs Zimbabwe", "VacancyBox"} THEN PaginationTexts
               ELSE {PageText("none", 0)})}

\* get_total_pages has not been called
PagesOff ==
    /\ gpc = "off"
    /\ pages_site = ""
    /\ pages_soup = Soup(FALSE, <<>>, PageText("none", 0))
    /\ pages_returned = PagesReturn(1)

VacancyMailGetTotalPages ==
    /\ gpc = "input"
    /\ pages_site = "VacancyMail"
    /\ pages_returned' = VacancyMailTotalPages(pages_soup)
    /\ gpc' = "returned"
    /\ UNCHANGED <<pages_site, pages_soup, emailVars, classVars, cleanVars, listVars, runVars, dateVars, pageVars>>

JobsZimbabweGetTotalPages ==
    /\ gpc = "input"
    /\ pages_site = "Jobs Zimbabwe"
    /\ pages_returned' = JobsZimbabweTotalPages(pages_soup)
    /\ gpc' = "returned"
    /\ UNCHANGED <<pages_site, pages_soup, emailVars, classVars, cleanVars, listVars, runVars, dateVars, pageVars>>

ZimboJobsGetTotalPages ==
    /\ gpc = "input"
    /\ pages_site = "ZimboJobs"
    /\ pages_returned' = ZimboJobsTotalPages(pages_soup)
    /\ gpc' = "returned"
    /\ UNCHANGED <<pages_site, pages_soup, emailVars, classVars, cleanVars, listVars, runVars, dateVars, pageVars>>

VacancyBoxGetTotalPages ==
    /\ gpc = "input"
    /\ pages_site = "VacancyBox"
    /\ pages_returned' = VacancyBoxTotalPages(pages_soup)
    /\ gpc' = "returned"
    /\ UNCHANGED <<pages_site, pages_soup, emailVars, classVars, cleanVars, listVars, runVars, dateVars, pageVars>>

RecruitmentMatterGetTotalPages ==
    /\ gpc = "input"
    /\ pages_site = "RecruitmentMatters"
    /\ pages_returned' = RecruitmentMatterTotalPages(pages_soup)
    /\ gpc' = "returned"
    /\ UNCHANGED <<pages_site, pages_soup, emailVars, classVars, cleanVars, listVars, runVars, dateVars, pageVars>>

----------------------------------------------------------------------------
\* extract_email_from_job_page(job_url) of the five adapters

\* An address of the text of the detail page, in lower case, and whether one of the
\* application_keywords of VacancyBox stands within 100 characters of it. The addresses
\* of a page are further than that from each other.
TextAddress(address, near_keyword) == [address |-> address, near_keyword |-> near_keyword]

\* The detail page: the request succeeds ("ok") or fails ("fails"); the addresses of its
\* mailto: links, in document order; the addresses of its text, in order
DetailPage(http, mailto, text) == [http |-> http, mailto |-> mailto, text |-> text]

\* any(x in text for x in words)
AnyOf(words, text) == \E w \in words : In(w, text)

\* emails[0] if emails else placeholder, the pattern applied to the text of the page
FirstAddress(page, placeholder) ==
    IF page.http = "fails" \/ page.text = <<>> THEN placeholder ELSE page.text[1].address

\* ---- VacancyMailScraper, JobsZimbabweScraper, ZimboJobsScraper
VacancyMailExtractEmail(page) == FirstAddress(page, "N/A")

JobsZimbabweExtractEmail(page) == FirstAddress(page, "Apply on Jobs Zimbabwe")

ZimboJobsExtractEmail(page) == FirstAddress(page, "Apply on ZimboJobs")

\* ---- VacancyBoxScraper
excluded_patterns ==
    {"noreply", "no-reply", "donotreply", "info@wordpress", "admin@", "webmaster@",
     "postmaster@", "abuse@", "support@example", "test@", "demo@", "sample@"}

application_keywords ==
    {"apply", "application", "send", "submit", "email", "contact", "hr@", "recruitment@",
     "jobs@", "careers@", "vacancy@"}

\* application_emails: the addresses without an excluded pattern
ApplicationEmails(text) ==
    SelectSeq(text, LAMBDA t : ~AnyOf(excluded_patterns, t.address))

\* unique_emails: duplicates removed, the order kept
RECURSIVE Unique(_, _)
Unique(text, seen) ==
    IF text = <<>> THEN <<>>
    ELSE IF Head(text).address \in seen THEN Unique(Tail(text), seen)
    ELSE <<Head(text)>> \o Unique(Tail(text), seen \cup {Head(text).address})

\* the context of an address, which contains the address, holds an application keyword.
\* The context is taken at the first place the address stands in the text
InContext(unique, i) ==
    unique[i].near_keyword \/ AnyOf(application_keywords, unique[i].address)

\* best_email, else unique_emails[0], else the placeholder
VacancyBoxExtractEmail(page) ==
    IF page.http = "fails" THEN "Apply on VacancyBox"
    ELSE LET unique == Unique(ApplicationEmails(page.text), {})
             best == {i \in 1..Len(unique) : InContext(unique, i)}
         IN  IF best # {} THEN unique[CHOOSE i \in best : \A j \in best : i <= j].address
             ELSE IF unique # <<>> THEN unique[1].address
             ELSE "Apply on VacancyBox"

\* ---- RecruitmentMatterScraper: the first mailto: address without 'noreply'; else the
\* first address of the text, unless it holds noreply, no-reply or donotreply
RecruitmentMatterExtractEmail(page) ==
    IF page.http = "fails" THEN "Apply on RecruitmentMatters"
    ELSE LET mailto == SelectSeq(page.mailto, LAMBDA a : ~In("noreply", a))
         IN  IF mailto # <<>> THEN mailto[1]
             ELSE IF page.text # <<>>
                     /\ ~AnyOf({"noreply", "no-reply", "donotreply"}, page.text[1].address)
                  THEN page.text[1].address
             ELSE "Apply on RecruitmentMatters"

\* ---- the detail pages
MaxAddresses == 2
MaxMailto == 1

Addresses ==
    {"jobs@firm.co.zw", "cv@firm.co.zw", "noreply@firm.co.zw", "no-reply@firm.co.zw",
     "admin@firm.co.zw"}

\* the mailto: links matter to RecruitmentMatters, the keywords to VacancyBox
DetailPagesOf(site) ==
    {DetailPage("fails", <<>>, <<>>)}
    \cup {DetailPage("ok", ms, ts) :
            ms \in (IF site = "RecruitmentMatters" THEN SeqsUpTo(Addresses, MaxMailto)
                    ELSE {<<>>}),
            ts \in SeqsUpTo({TextAddress(a, k) :
                                a \in Addresses,
                                k \in (IF site = "VacancyBox" THEN BOOLEAN ELSE {FALSE})},
                            MaxAddresses)}

\* extract_email_from_job_page has not been called
EmailOff ==
    /\ epc = "off"
    /\ email_site = ""
    /\ detail_page = DetailPage("fails", <<>>, <<>>)
    /\ email_returned = ""

VacancyMailExtractEmailFromJobPage ==
    /\ epc = "input"
    /\ email_site = "VacancyMail"
    /\ email_returned' = VacancyMailExtractEmail(detail_page)
    /\ epc' = "returned"
    /\ UNCHANGED <<email_site, detail_page, pagesVars, classVars, cleanVars, listVars, runVars, dateVars, pageVars>>

JobsZimbabweExtractEmailFromJobPage ==
    /\ epc = "input"
    /\ email_site = "Jobs Zimbabwe"
    /\ email_returned' = JobsZimbabweExtractEmail(detail_page)
    /\ epc' = "returned"
    /\ UNCHANGED <<email_site, detail_page, pagesVars, classVars, cleanVars, listVars, runVars, dateVars, pageVars>>

ZimboJobsExtractEmailFromJobPage ==
    /\ epc = "input"
    /\ email_site = "ZimboJobs"
    /\ email_returned' = ZimboJobsExtractEmail(detail_page)
    /\ epc' = "returned"
    /\ UNCHANGED <<email_site, detail_page, pagesVars, classVars, cleanVars, listVars, runVars, dateVars, pageVars>>

VacancyBoxExtractEmailFromJobPage ==
    /\ epc = "input"
    /\ email_site = "VacancyBox"
    /\ email_returned' = VacancyBoxExtractEmail(detail_page)
    /\ epc' = "returned"
    /\ UNCHANGED <<email_site, detail_page, pagesVars, classVars, cleanVars, listVars, runVars, dateVars, pageVars>>

RecruitmentMatterExtractEmailFromJobPage ==
    /\ epc = "input"
    /\ email_site = "RecruitmentMatters"
    /\ email_returned' = RecruitmentMatterExtractEmail(detail_page)
    /\ epc' = "returned"
    /\ UNCHANGED <<email_site, detail_page, pagesVars, classVars, cleanVars, listVars, runVars, dateVars, pageVars>>

\* none of the other methods has been called
CallOff == PagesOff /\ EmailOff

TextOff == ClassifyOff /\ CleanOff /\ ListingOff /\ CallOff

----------------------------------------------------------------------------
\* JobScraper.scrape_jobs

\* range(2, min(total_pages + 1, 30)) as the last page number of the loop
LastLoopPage(total) == Min(total + 1, LoopLimit) - 1

\* except Exception: ... return []
\* (mutant) the handler returns what the run had gathered
ExceptResultGathered(how) == [jobs |-> run_jobs_data, how |-> how]

\* except Exception as e: ... return []
ExceptResult(how) == [jobs |-> <<>>, how |-> how]

\* (mutant) the page's listings assigned instead of appended
ReplaceList(jobs, more) == more

\* all_jobs_data.extend(first_page_jobs), all_jobs_data.extend(page_jobs)
ExtendList(jobs, more) == jobs \o more

\* (mutant) the failure sentinel of page 1 is not looked at
FirstPageNeverFailed(soup) == FALSE

\* if first_page_soup is None
FirstPageFailed(soup) == soup.isNone

\* (mutant) the test_mode argument is ignored
FirstPageOnlyIgnored(mode) == FALSE

\* if test_mode: total_pages = 1 ... if not test_mode and total_pages > 1
FirstPageOnly(mode) == mode

\* scrape_jobs is entered: all_jobs_data = []
StartScraper ==
    /\ opc = "scraping"
    /\ pc = "idle"
    /\ scraper_i <= Len(ConfiguredScrapers)
    /\ pc' = "first_page"
    /\ run_jobs_data' = <<>>
    /\ calls' = <<>>
    /\ first_page_soup' = NoneDoc
    /\ total_pages' = 0
    /\ page_num' = 0
    /\ result' = ExceptResult("none")
    /\ UNCHANGED <<orchVars, envVars, dateVars, pageVars, textVars>>

\* first_page_jobs, first_page_soup = self.scrape_page(self.base_url, 1)
\* if first_page_soup is None: return []
\* all_jobs_data.extend(first_page_jobs); if test_mode: total_pages = 1
ScrapeFirstPage ==
    /\ pc = "first_page"
    /\ \E o \in PageOutcomes(scraper_i, 1) :
        LET site == ConfiguredScrapers[scraper_i]
            first_page_jobs == PageResultJobs(site, 1, o)
            soup == PageResultDoc(site, 1, o)
        IN  /\ calls' = Append(calls, [op |-> "scrape_page", page |-> 1, out |-> o])
            /\ IF o = "raise"
               THEN /\ result' = ExceptResult("raised_first_page")
                    /\ pc' = "return"
                    /\ UNCHANGED <<run_jobs_data, first_page_soup, total_pages>>
               ELSE /\ first_page_soup' = soup
                    /\ IF FirstPageFailed(soup)
                       THEN /\ result' = [jobs |-> <<>>, how |-> "first_page_failed"]
                            /\ pc' = "return"
                            /\ UNCHANGED <<run_jobs_data, total_pages>>
                       ELSE /\ run_jobs_data' = ExtendList(run_jobs_data, first_page_jobs)
                            /\ IF FirstPageOnly(test_mode)
                               THEN /\ total_pages' = 1
                                    /\ result' = [jobs |-> run_jobs_data', how |-> "normal"]
                                    /\ pc' = "return"
                               ELSE /\ pc' = "count_pages"
                                    /\ UNCHANGED <<total_pages, result>>
    /\ UNCHANGED <<page_num, orchVars, envVars, dateVars, pageVars, textVars>>

\* total_pages = self.get_total_pages(first_page_soup)
\* if not test_mode and total_pages > 1: for page_num in range(2, ...)
CountPages ==
    /\ pc = "count_pages"
    /\ \E n \in TotalPagesOutcomes(scraper_i) :
        /\ calls' = Append(calls, [op |-> "get_total_pages", page |-> first_page_soup.page,
                                   out |-> IF n = 0 THEN "raise" ELSE "ok"])
        /\ IF n = 0
           THEN /\ result' = ExceptResult("raised")
                /\ pc' = "return"
                /\ UNCHANGED <<total_pages, page_num>>
           ELSE /\ total_pages' = n
                /\ page_num' = 2
                /\ IF n > 1 /\ 2 <= LastLoopPage(n)
                   THEN /\ pc' = "next_page"
                        /\ UNCHANGED result
                   ELSE /\ result' = [jobs |-> run_jobs_data, how |-> "normal"]
                        /\ pc' = "return"
    /\ UNCHANGED <<run_jobs_data, first_page_soup, orchVars, envVars, dateVars, pageVars, textVars>>

\* page_jobs, _ = self.scrape_page(self.base_url, page_num)
\* all_jobs_data.extend(page_jobs)
ScrapeNextPage ==
    /\ pc = "next_page"
    /\ \E o \in PageOutcomes(scraper_i, page_num) :
        LET site == ConfiguredScrapers[scraper_i]
            page_jobs == PageResultJobs(site, page_num, o)
        IN  /\ calls' = Append(calls, [op |-> "scrape_page", page |-> page_num, out |-> o])
            /\ IF o = "raise"
               THEN /\ result' = ExceptResult("raised")
                    /\ pc' = "return"
                    /\ UNCHANGED <<run_jobs_data, page_num>>
               ELSE /\ run_jobs_data' = ExtendList(run_jobs_data, page_jobs)
                    /\ page_num' = page_num + 1
                    /\ IF page_num + 1 <= LastLoopPage(total_pages)
                       THEN /\ pc' = "next_page"
                            /\ UNCHANGED result
                       ELSE /\ result' = [jobs |-> run_jobs_data', how |-> "normal"]
                            /\ pc' = "return"
    /\ UNCHANGED <<first_page_soup, total_pages, orchVars, envVars, dateVars, pageVars, textVars>>

----------------------------------------------------------------------------
\* scrape_multiple_sites

\* (mutant) the aggregate is overwritten by the adapter's listings
ReplaceAggregate(aggregate, jobs) == jobs

\* (mutant) the adapter's listings are put in front of the aggregate
PrependAggregate(aggregate, jobs) == jobs \o aggregate

\* all_jobs_data.extend(jobs)
ExtendAggregate(aggregate, jobs) == aggregate \o jobs

\* site_stats[scraper.site_name] = len(jobs)
RecordStats(stats, site, jobs) ==
    [s \in DOMAIN stats \cup {site} |-> IF s = site THEN Len(jobs) ELSE stats[s]]

\* jobs = scraper.scrape_jobs(test_mode); all_jobs_data.extend(jobs);
\* site_stats[scraper.site_name] = len(jobs); the for loop moves on
ScraperReturns ==
    /\ pc = "return"
    /\ all_jobs_data' = ExtendAggregate(all_jobs_data, result.jobs)
    /\ site_stats' = RecordStats(site_stats, ConfiguredScrapers[scraper_i], result.jobs)
    /\ returned' = Append(returned, result)
    /\ scraper_i' = scraper_i + 1
    /\ pc' = "idle"
    /\ UNCHANGED <<test_mode, opc, run_jobs_data, first_page_soup, total_pages,
                   page_num, result, calls, fileVars, envVars, dateVars, pageVars, textVars>>

\* the for loop over scrapers is exhausted
FinishScraping ==
    /\ opc = "scraping"
    /\ pc = "idle"
    /\ scraper_i > Len(ConfiguredScrapers)
    /\ opc' = "finished"
    /\ UNCHANGED <<test_mode, scraper_i, all_jobs_data, site_stats, returned,
                   pc, run_jobs_data, first_page_soup, total_pages, page_num, result,
                   calls, fileVars, envVars, dateVars, pageVars, textVars>>

\* ---- the persistence step

\* f'scraped_data_{timestamp}.csv', f'scraped_data_{timestamp}.json' and the "latest"
\* copies
TimestampedCsv == "scraped_data_<timestamp>.csv"
TimestampedJson == "scraped_data_<timestamp>.json"
LatestCsv == "scraped_data.csv"
LatestJson == "scraped_data.json"

OutputFiles == {TimestampedCsv, TimestampedJson, LatestCsv, LatestJson}

\* how the write of a file ends: done, PermissionError, or another exception
WriteOutcomes == {"ok", "PermissionError", "OSError"}

\* (mutant) the empty aggregate is not tested
NoJobsNever(aggregate) == FALSE

\* if not all_jobs_data
NoJobs(aggregate) == aggregate = <<>>

\* (mutant) no exception of the "latest" copies is caught
ExceptNothing(o) == FALSE

\* except PermissionError
ExceptPermissionError(o) == o = "PermissionError"

\* the variables of scrape_multiple_sites that the persistence step leaves alone
loopVars == <<test_mode, scraper_i, all_jobs_data, site_stats, returned,
              pc, run_jobs_data, first_page_soup, total_pages, page_num, result, calls>>

\* if not all_jobs_data: ... return
NoJobsFound ==
    /\ opc = "finished"
    /\ NoJobs(all_jobs_data)
    /\ opc' = "ended"
    /\ ended' = "returned"
    /\ UNCHANGED <<files, last_write, warned, loopVars, envVars, dateVars, pageVars, textVars>>

\* the write of a file and how it ended; NoWrite before the first write
Written(file, o) == [file |-> file, outcome |-> o]
NoWrite == Written("", "none")

\* a write outside any try: the file is written, or the exception leaves the function
WriteOrRaise(file, o, next) ==
    /\ last_write' = Written(file, o)
    /\ IF o = "ok"
       THEN /\ files' = [files EXCEPT ![file] = "new"]
            /\ opc' = next
            /\ UNCHANGED ended
       ELSE /\ opc' = "ended"
            /\ ended' = "raised"
            /\ UNCHANGED files

\* df_csv.to_csv(filename, index=False, na_rep='N/A')
SaveTimestampedCsv ==
    /\ opc = "finished"
    /\ ~NoJobs(all_jobs_data)
    /\ \E o \in WriteOutcomes : WriteOrRaise(TimestampedCsv, o, "csv_saved")
    /\ UNCHANGED <<warned, loopVars, envVars, dateVars, pageVars, textVars>>

\* with open(json_filename, 'w', encoding='utf-8') as json_file: json.dump(...)
SaveTimestampedJson ==
    /\ opc = "csv_saved"
    /\ \E o \in WriteOutcomes : WriteOrRaise(TimestampedJson, o, "json_saved")
    /\ UNCHANGED <<warned, loopVars, envVars, dateVars, pageVars, textVars>>

\* a write inside try: ... except PermissionError: logging.warning(...)
WriteOrWarn(file, o, next) ==
    /\ last_write' = Written(file, o)
    /\ IF o = "ok"
       THEN /\ files' = [files EXCEPT ![file] = "new"]
            /\ opc' = next
            /\ UNCHANGED <<warned, ended>>
       ELSE IF ExceptPermissionError(o)
       THEN /\ warned' = TRUE
            /\ opc' = "statistics"
            /\ UNCHANGED <<files, ended>>
       ELSE /\ opc' = "ended"
            /\ ended' = "raised"
            /\ UNCHANGED <<files, warned>>

\* df_csv.to_csv('scraped_data.csv', index=False, na_rep='N/A')
SaveLatestCsv ==
    /\ opc = "json_saved"
    /\ \E o \in WriteOutcomes : WriteOrWarn(LatestCsv, o, "latest_csv_saved")
    /\ UNCHANGED <<loopVars, envVars, dateVars, pageVars, textVars>>

\* with open('scraped_data.json', 'w', encoding='utf-8') as json_file: json.dump(...)
SaveLatestJson ==
    /\ opc = "latest_csv_saved"
    /\ \E o \in WriteOutcomes : WriteOrWarn(LatestJson, o, "statistics")
    /\ UNCHANGED <<loopVars, envVars, dateVars, pageVars, textVars>>

\* the summary statistics, logged and printed; the function returns
PrintStatistics ==
    /\ opc = "statistics"
    /\ opc' = "ended"
    /\ ended' = "returned"
    /\ UNCHANGED <<files, last_write, warned, loopVars, envVars, dateVars, pageVars, textVars>>

\* no output file has been touched
NoFiles == [f \in OutputFiles |-> "absent"]

\* scrape_multiple_sites is entered
InitLoop ==
    /\ test_mode \in BOOLEAN
    /\ scraper_i = 1
    /\ opc = "scraping"
    /\ all_jobs_data = <<>>
    /\ site_stats = [s \in {} |-> 0]
    /\ returned = <<>>
    /\ last_write = NoWrite
    /\ warned = FALSE
    /\ ended = "no"
    /\ pc = "idle"
    /\ run_jobs_data = <<>>
    /\ first_page_soup = NoneDoc
    /\ total_pages = 0
    /\ page_num = 0
    /\ result = ExceptResult("none")
    /\ calls = <<>>

\* the adapter loop, in a directory without output files
InitRun == InitLoop /\ files = NoFiles

\* One site with up to MaxPages pages, each of which may succeed, fail or raise;
\* the other sites have a single page, which may succeed, fail or raise
Init ==
    /\ InitRun
    /\ DateOff
    /\ PageOff
    /\ TextOff
    /\ env_focus \in 1..Len(Scrapers)
    /\ env_deep = FALSE
    /\ source_file = MainFile

\* Sites with paginations around the loop limit, whose fetches all succeed
InitDeep ==
    /\ InitRun
    /\ DateOff
    /\ PageOff
    /\ TextOff
    /\ test_mode = FALSE
    /\ env_focus = 0
    /\ env_deep = TRUE
    /\ source_file = MainFile

Next ==
    \/ StartScraper
    \/ ScrapeFirstPage
    \/ CountPages
    \/ ScrapeNextPage
    \/ ScraperReturns
    \/ FinishScraping

Spec == Init /\ [][Next]_vars

SpecDeep == InitDeep /\ [][Next]_vars

\* The adapter loop of either file: the five adapters of web_scraper.py or the three
\* of web_scraper_clean.py, whose loop and scrape_jobs are the same code
InitFiles ==
    /\ InitRun
    /\ DateOff
    /\ PageOff
    /\ TextOff
    /\ source_file \in {MainFile, CleanFile}
    /\ env_focus \in 1..Len(ConfiguredScrapers)
    /\ env_deep = FALSE

SpecFiles == InitFiles /\ [][Next]_vars

\* The whole of scrape_multiple_sites, the persistence step included, in a directory
\* where the "latest" copies of an earlier run may lie
InitSave ==
    /\ InitLoop
    /\ \E latest \in {"absent", "old"} :
          files = [f \in OutputFiles |-> IF f \in {LatestCsv, LatestJson} THEN latest
                                         ELSE "absent"]
    /\ DateOff
    /\ PageOff
    /\ TextOff
    /\ env_focus \in 1..Len(Scrapers)
    /\ env_deep = FALSE
    /\ source_file = MainFile

NextSave ==
    \/ Next
    \/ NoJobsFound
    \/ SaveTimestampedCsv
    \/ SaveTimestampedJson
    \/ SaveLatestCsv
    \/ SaveLatestJson
    \/ PrintStatistics

SpecSave == InitSave /\ [][NextSave]_vars

\* scrape_multiple_sites has not been called
RunOff ==
    /\ test_mode = FALSE
    /\ scraper_i = 1
    /\ opc = "off"
    /\ all_jobs_data = <<>>
    /\ site_stats = [s \in {} |-> 0]
    /\ returned = <<>>
    /\ files = NoFiles
    /\ last_write = NoWrite
    /\ warned = FALSE
    /\ ended = "no"
    /\ pc = "idle"
    /\ run_jobs_data = <<>>
    /\ first_page_soup = NoneDoc
    /\ total_pages = 0
    /\ page_num = 0
    /\ result = ExceptResult("none")
    /\ calls = <<>>
    /\ env_focus = 0
    /\ env_deep = FALSE
    /\ source_file = MainFile

\* parse_expiry_date and is_job_current applied to every text of Texts on every day of Todays
InitDate ==
    /\ RunOff
    /\ PageOff
    /\ TextOff
    /\ dpc = "input"
    /\ expiry_text \in Texts
    /\ today \in Todays
    /\ expiry_date = NoDate
    /\ is_current = FALSE

NextDate ==
    \/ CallParseExpiryDate
    \/ CallIsJobCurrent

SpecDate == InitDate /\ [][NextDate]_vars

\* scrape_page of each adapter applied to every page of ContentsOf, as page 1 and page 2
InitPage ==
    /\ RunOff
    /\ dpc = "off"
    /\ expiry_text = NoneText
    /\ today = RunDate
    /\ expiry_date = NoDate
    /\ is_current = FALSE
    /\ ppc = "input"
    /\ page_site \in {Scrapers[i] : i \in 1..Len(Scrapers)}
    /\ arg_page_num \in {1, 2}
    /\ page_content \in ContentsOf(page_site)
    /\ page_result = PageReturn(<<>>, NoneDoc, {})
    /\ page_requests = <<>>
    /\ TextOff

NextPage ==
    \/ VacancyMailScrapePage
    \/ JobsZimbabweScrapePage
    \/ ZimboJobsScrapePage
    \/ VacancyBoxScrapePage
    \/ RecruitmentMatterScrapePage

SpecPage == InitPage /\ [][NextPage]_vars

\* classify_job_category applied, twice, to every triple of ClassifyInputs
InitClassify ==
    /\ RunOff
    /\ DateOff
    /\ PageOff
    /\ CleanOff
    /\ ListingOff
    /\ CallOff
    /\ cpc = "input"
    /\ \E input \in ClassifyInputs :
          /\ title = input[1]
          /\ description = input[2]
          /\ company = input[3]
    /\ category_scores = [c \in 1..Len(Categories) |-> 0]
    /\ category = ""
    /\ category_again = ""

NextClassify ==
    \/ CallClassifyJobCategory
    \/ CallClassifyJobCategoryAgain

SpecClassify == InitClassify /\ [][NextClassify]_vars

\* clean_text applied to every string of RawTexts, and to its own result
InitClean ==
    /\ RunOff
    /\ DateOff
    /\ PageOff
    /\ ClassifyOff
    /\ ListingOff
    /\ CallOff
    /\ kpc = "input"
    /\ raw_text \in RawTexts
    /\ cleaned = NotAStr
    /\ cleaned_again = NotAStr

NextClean ==
    \/ CallCleanText
    \/ CallCleanTextAgain

SpecClean == InitClean /\ [][NextClean]_vars

\* the dict of every path that creates a listing, built from every listing of Scraped
InitListing ==
    /\ RunOff
    /\ dpc = "off"
    /\ expiry_text = NoneText
    /\ today = RunDate
    /\ expiry_date = NoDate
    /\ is_current = FALSE
    /\ PageOff
    /\ ClassifyOff
    /\ CleanOff
    /\ CallOff
    /\ lpc = "scraped"
    /\ scraped \in Scraped
    /\ job_dict = NoJob

NextListing ==
    \/ VacancyMailAppend
    \/ JobsZimbabweAppend
    \/ ZimboJobsJsonAppend
    \/ ZimboJobsPlaceholderAppend
    \/ VacancyBoxAppend
    \/ VacancyBoxFallbackAppend
    \/ RecruitmentMatterAppend

SpecListing == InitListing /\ [][NextListing]_vars

\* get_total_pages of every adapter applied to every document of SoupsOf
InitPages ==
    /\ RunOff
    /\ DateOff
    /\ PageOff
    /\ ClassifyOff
    /\ CleanOff
    /\ ListingOff
    /\ EmailOff
    /\ gpc = "input"
    /\ pages_site \in {Scrapers[i] : i \in 1..Len(Scrapers)}
    /\ pages_soup \in SoupsOf(pages_site)
    /\ pages_returned = PagesReturn(1)

NextPages ==
    \/ VacancyMailGetTotalPages
    \/ JobsZimbabweGetTotalPages
    \/ ZimboJobsGetTotalPages
    \/ VacancyBoxGetTotalPages
    \/ RecruitmentMatterGetTotalPages

SpecPages == InitPages /\ [][NextPages]_vars

\* extract_email_from_job_page of every adapter applied to every page of DetailPagesOf
InitEmail ==
    /\ RunOff
    /\ DateOff
    /\ PageOff
    /\ ClassifyOff
    /\ CleanOff
    /\ ListingOff
    /\ PagesOff
    /\ epc = "input"
    /\ email_site \in {Scrapers[i] : i \in 1..Len(Scrapers)}
    /\ detail_page \in DetailPagesOf(email_site)
    /\ email_returned = ""

NextEmail ==
    \/ VacancyMailExtractEmailFromJobPage
    \/ JobsZimbabweExtractEmailFromJobPage
    \/ ZimboJobsExtractEmailFromJobPage
    \/ VacancyBoxExtractEmailFromJobPage
    \/ RecruitmentMatterExtractEmailFromJobPage

SpecEmail == InitEmail /\ [][NextEmail]_vars

----------------------------------------------------------------------------
\* Properties of the adapter run and of the orchestrator

\* the page numbers of the scrape_page calls of a log, in call order
RECURSIVE PagesCalled(_)
PagesCalled(log) ==
    IF log = <<>> THEN <<>>
    ELSE (IF Head(log).op = "scrape_page" THEN <<Head(log).page>> ELSE <<>>)
         \o PagesCalled(Tail(log))

\* the listings of the scrape_page calls of a log that returned a document, in call order
RECURSIVE SucceededJobs(_, _)
SucceededJobs(site, log) ==
    IF log = <<>> THEN <<>>
    ELSE (IF Head(log).op = "scrape_page" /\ Head(log).out \in {"ok", "ok_empty"}
          THEN PageResultJobs(site, Head(log).page, Head(log).out)
          ELSE <<>>)
         \o SucceededJobs(site, Tail(log))

CountCalls(log, op) == Cardinality({k \in 1..Len(log) : log[k].op = op})

Listed(job, jobs) == \E k \in 1..Len(jobs) : jobs[k] = job

\* C1: orchestrator resilience. When an adapter's scrape_page raises on every call
\* (its run makes one call, which raises), then after the run every adapter was run,
\* the aggregate holds every listing each adapter returned, and the raising
\* adapter's entry in site_stats is 0.
C1_OrchestratorResilience ==
    (opc = "finished" /\ \E i \in 1..Len(returned) : returned[i].how = "raised_first_page")
    => /\ Len(returned) = Len(Scrapers)
       /\ DOMAIN site_stats = {Scrapers[i] : i \in 1..Len(Scrapers)}
       /\ \A i \in 1..Len(returned) :
            /\ \A k \in 1..Len(returned[i].jobs) : Listed(returned[i].jobs[k], all_jobs_data)
            /\ returned[i].how = "raised_first_page" => site_stats[Scrapers[i]] = 0

\* C1 witness: the run is over, the second adapter raised, and adapters before and
\* after it contributed listings.
C1_Witness ==
    /\ opc = "finished"
    /\ returned[2].how = "raised_first_page"
    /\ Len(returned[1].jobs) > 0
    /\ Len(returned[3].jobs) > 1
    /\ Len(all_jobs_data) >= 3

\* C2: when the fetch of page 1 returns no document, the run stops at once with an
\* empty result: no get_total_pages call, no fetch of a page >= 2, and the returned
\* list is empty even when the failed call returned listings.
C2_FirstPageFailureStops ==
    (calls # <<>> /\ calls[1].out \in {"fail", "fail_with_jobs"})
    => /\ Len(calls) = 1
       /\ pc \in {"return", "idle"}
       /\ result.jobs = <<>>
       /\ result.how = "first_page_failed"

\* C2 witness: page 1 came back with listings but without a document.
C2_Witness ==
    /\ pc = "return"
    /\ Len(calls) = 1
    /\ calls[1].out = "fail_with_jobs"
    /\ PageResultJobs(Scrapers[scraper_i], 1, calls[1].out) # <<>>

\* C3 (as claimed): in a non-test run in which page 1 succeeds and get_total_pages
\* returns N, scrape_page is called exactly once for each page of 1..min(N, 50), in
\* ascending order, and get_total_pages exactly once, after page 1 and before page 2,
\* with the document of page 1.
C3_PagesUpToDocumentedLimit ==
    (pc = "return" /\ ~test_mode /\ result.how = "normal")
    => /\ PagesCalled(calls) = [k \in 1..Min(total_pages, DocumentedLimit) |-> k]
       /\ CountCalls(calls, "get_total_pages") = 1
       /\ calls[2].op = "get_total_pages"
       /\ calls[2].page = 1

\* C4: in test mode scrape_page is called exactly once, for page 1, get_total_pages
\* is never called, and when page 1 came with a document the result is exactly the
\* listings of page 1.
C4_TestModeFirstPageOnly ==
    test_mode
    => /\ CountCalls(calls, "get_total_pages") = 0
       /\ \A k \in 1..Len(calls) : calls[k].page = 1
       /\ Len(calls) <= 1
       /\ pc = "return" =>
            /\ Len(calls) = 1
            /\ calls[1].op = "scrape_page"
            /\ calls[1].out \in {"ok", "ok_empty"} =>
                 result.jobs = PageResultJobs(Scrapers[scraper_i], 1, calls[1].out)

\* C4 witness: a test-mode run returns the listings of its first page.
C4_Witness ==
    /\ test_mode
    /\ pc = "return"
    /\ calls[1].out = "ok"
    /\ result.jobs = PageJobs(Scrapers[scraper_i], 1)

\* the run in progress raised nowhere and its failed fetches of pages >= 2 returned
\* the failure sentinel ([], None)
PlainFailuresOnly ==
    \A k \in 1..Len(calls) : calls[k].out \notin {"raise", "fail_with_jobs"}

\* C5: in a non-test run, when the fetch of a page k >= 2 fails with ([], None), the
\* listings aggregated before are kept, every remaining page up to the loop bound is
\* still fetched, and the result is the concatenation, in page order, of the listings
\* of the pages that succeeded.
C5_FailedPageIsSkipped ==
    (~test_mode /\ pc \in {"next_page", "return"} /\ Len(calls) >= 2 /\ PlainFailuresOnly)
    => /\ run_jobs_data = SucceededJobs(Scrapers[scraper_i], calls)
       /\ pc = "return" =>
            /\ result.jobs = SucceededJobs(Scrapers[scraper_i], calls)
            /\ PagesCalled(calls) = [k \in 1..Min(total_pages, LastLoopPage(total_pages)) |-> k]

\* C5 witness: a run whose page 2 failed after page 1 gave listings, and whose page 3
\* was fetched all the same.
C5_Witness ==
    /\ ~test_mode
    /\ pc = "return"
    /\ PlainFailuresOnly
    /\ Len(calls) = 4
    /\ calls[1].out = "ok"
    /\ calls[3].op = "scrape_page" /\ calls[3].page = 2 /\ calls[3].out = "fail"
    /\ calls[4].op = "scrape_page" /\ calls[4].page = 3 /\ calls[4].out = "ok"
    /\ Len(result.jobs) = 2 * JobsPerPage

----------------------------------------------------------------------------
\* Properties of parse_expiry_date and is_job_current

RECURSIVE DaysBeforeMonth(_, _)
DaysBeforeMonth(y, m) == IF m <= 1 THEN 0 ELSE DaysBeforeMonth(y, m - 1) + DaysInMonth(y, m - 1)

\* the day number of a date, counted from 0001-01-01 as day 1
ToOrdinal(dt) ==
    LET y1 == dt.y - 1
    IN  365 * y1 + (y1 \div 4) - (y1 \div 100) + (y1 \div 400) + DaysBeforeMonth(dt.y, dt.m) + dt.d

\* a Month-Day-Year date a reader recognizes: a month name or abbreviation, a day, a year
RecognizableMonthDayYear(tok) ==
    /\ tok.k = "date"
    /\ tok.f \in {"B d, Y", "B d Y", "b d, Y"}
    /\ ValidDate(tok.y, tok.m, tok.d)

\* a date in one of the forms the code names: "August 31, 2025", "31 August 2025",
\* "2025-08-31", with the month abbreviated or not
RecognizableDate(tok) ==
    /\ tok.k = "date"
    /\ tok.f \in {"B d, Y", "B d Y", "b d, Y", "d B Y", "d b Y", "Y-m-d"}
    /\ ValidDate(tok.y, tok.m, tok.d)

\* the date of the first date token of a text
TheDate(text) ==
    LET i == CHOOSE i \in 1..Len(text.toks) :
                /\ text.toks[i].k = "date"
                /\ \A j \in 1..(i - 1) : text.toks[j].k # "date"
    IN  Date(text.toks[i].y, text.toks[i].m, text.toks[i].d)

PostedWithMonthDayYear(text) ==
    /\ text.isStr
    /\ \E i \in 1..Len(text.toks) : text.toks[i].k = "word" /\ Lower(text.toks[i].w) = "posted"
    /\ \E i \in 1..Len(text.toks) : RecognizableMonthDayYear(text.toks[i])

\* one of the prefixes the code lists (expires, expiry, closing, closing date) and a date
ExpiryPhraseWithDate(text) ==
    /\ text.isStr
    /\ \E p \in {<<Word("Expires")>>, <<Word("Expiry")>>, <<Word("Closing")>>,
                 <<Word("Closing"), Word("date")>>} :
         /\ Len(text.toks) = Len(p) + 1
         /\ SubSeq(text.toks, 1, Len(p)) = p
         /\ RecognizableDate(text.toks[Len(p) + 1])

NoRecognizableDate(text) ==
    \A i \in 1..Len(text.toks) : ~RecognizableDate(text.toks[i])

\* C9: the fail-closed currency filter. is_job_current returns a boolean for every
\* argument (it never raises); it is true exactly when parse_expiry_date gave a date
\* on or after today, and false for a missing, non-string or unparseable text ("N/A").
C9_FailClosedCurrency ==
    dpc = "checked"
    => /\ is_current \in BOOLEAN
       /\ is_current <=> (expiry_date # NoDate /\ ToOrdinal(expiry_date) >= ToOrdinal(today))
       /\ (~expiry_text.isStr \/ expiry_text.toks = <<>> \/ expiry_date = NoDate) => ~is_current
       /\ expiry_text = Str(<<Word("N/A")>>) => (expiry_date = NoDate /\ ~is_current)

\* C9 witness: an expiry that falls on today is current.
C9_Witness ==
    /\ dpc = "checked"
    /\ expiry_date = today
    /\ is_current

\* C10, first part: "posted" and a recognizable Month-Day-Year date give that date
\* plus exactly 30 days.
C10_PostedPlusThirty ==
    (dpc = "parsed" /\ PostedWithMonthDayYear(expiry_text))
    => /\ expiry_date # NoDate
       /\ ToOrdinal(expiry_date) = ToOrdinal(TheDate(expiry_text)) + 30

\* C10, second part: an expiry phrase with a recognizable date gives that date unchanged.
C10_ExpiryPhraseUnchanged ==
    (dpc = "parsed" /\ ExpiryPhraseWithDate(expiry_text))
    => expiry_date = TheDate(expiry_text)

\* C10, third part: a text with no recognizable date gives None.
C10_NoDateIsNone ==
    (dpc = "parsed" /\ NoRecognizableDate(expiry_text))
    => expiry_date = NoDate

\* C10, the three examples: "Expires August 31, 2025", "Posted on August 1, 2025", "garbage".
C10_Examples ==
    dpc = "parsed"
    => /\ expiry_text = Str(<<Word("Expires"), DateTok("B d, Y", 2025, 8, 31)>>)
            => expiry_date = Date(2025, 8, 31)
       /\ expiry_text = Str(<<Word("Posted"), Word("on"), DateTok("B d, Y", 2025, 8, 1)>>)
            => expiry_date = Date(2025, 8, 31)
       /\ expiry_text = Str(<<Word("garbage")>>)
            => expiry_date = NoDate

\* C10 (as claimed): parse_expiry_date gives the posted date plus exactly 30 days for a
\* text with "posted" and a recognizable Month-Day-Year date, the date unchanged for an
\* expiry phrase with a recognizable date, and None for a text with no recognizable date.
C10_ParseExpiryDate ==
    /\ C10_PostedPlusThirty
    /\ C10_ExpiryPhraseUnchanged
    /\ C10_NoDateIsNone
    /\ C10_Examples

----------------------------------------------------------------------------
\* Properties of scrape_page

\* the result is (listings, document) with a document, or exactly ([], None)
ListingsOrSentinel(res) ==
    \/ ~res.doc.isNone
    \/ res.jobs = <<>> /\ res.doc = NoneDoc

\* the items of a page whose text parses to a date on or after the given day
CurrentItems(items, now) ==
    {i \in 1..Len(items) :
        /\ ParseExpiryDate(items[i].text) # NoDate
        /\ ToOrdinal(ParseExpiryDate(items[i].text)) >= ToOrdinal(now)}

C7_EveryAdapterFiltersByCurrency ==
    ppc = "returned"
    => \A k \in 1..Len(page_result.jobs) :
          /\ ParseExpiryDate(page_result.jobs[k].expiry) # NoDate
          /\ ToOrdinal(ParseExpiryDate(page_result.jobs[k].expiry)) >= ToOrdinal(today)

\* C8: VacancyMailScraper.scrape_page, when it returns the page's document, returns one
\* listing for exactly the job elements whose expiry text parses to a date on or after
\* today, in page order and nothing else; it returns the document when the page is
\* fetched and every job element has the expected tags.
C8_VacancyMailKeepsCurrent ==
    (ppc = "returned" /\ page_site = "VacancyMail")
    => LET jobs == page_result.jobs
           items == page_content.items
       IN  /\ (page_content.http = "ok" /\ \A i \in 1..Len(items) : items[i].shape # "broken")
                => ~page_result.doc.isNone
           /\ ~page_result.doc.isNone
                => /\ Len(jobs) = Cardinality(CurrentItems(items, today))
                   /\ \A k \in 1..Len(jobs) :
                         /\ jobs[k].index \in CurrentItems(items, today)
                         /\ jobs[k] = Listing("VacancyMail", arg_page_num, jobs[k].index,
                                              items[jobs[k].index].text)
                   /\ \A k \in 1..(Len(jobs) - 1) : jobs[k].index < jobs[k + 1].index

\* C8 witness: a page with two listings, the first expired on July 31, 2025, the second
\* expiring on September 1, 2025, yields the second one only.
C8_Witness ==
    /\ ppc = "returned"
    /\ page_site = "VacancyMail"
    /\ today = Date(2025, 8, 31)
    /\ page_content.items =
          << Item(Str(<<Word("Expires"), DateTok("B d, Y", 2025, 7, 31)>>), "ok"),
             Item(Str(<<Word("Expires"), DateTok("B d, Y", 2025, 9, 1)>>), "ok") >>
    /\ page_result.jobs =
          << Listing("VacancyMail", arg_page_num, 2,
                     Str(<<Word("Expires"), DateTok("B d, Y", 2025, 9, 1)>>)) >>
    /\ ~page_result.doc.isNone

----------------------------------------------------------------------------
\* Properties of classify_job_category

\* the 15 category names of the taxonomy
TaxonomyNames ==
    {"Finance & Banking", "IT & Technology", "Healthcare", "Education & Training",
     "Sales & Marketing", "Human Resources", "Engineering", "Administration", "Management",
     "Legal", "Agriculture", "NGO & Development", "Consulting",
     "Transportation & Logistics", "Security"}

Classified == cpc \in {"classified", "again"}

\* the number of keywords of a list that satisfy a test
CountOf(list, test(_)) == Cardinality({i \in 1..Len(list) : test(list[i])})

\* the score of a category as the claim words it, from the counts of keywords found
ClaimedScore(keywords) ==
    LET t == StrLower(title)
        d == StrLower(description)
        c == StrLower(company)
        inT(k) == In(k, t)
        inDnotT(k) == ~In(k, t) /\ In(k, d)
        inConly(k) == ~In(k, t) /\ ~In(k, d) /\ In(k, c)
        inC(k) == In(k, c)
        inAll(k) == In(k, t \o " " \o d \o " " \o c)
    IN  10 * CountOf(keywords.primary, inT) + 8 * CountOf(keywords.primary, inDnotT)
        + 3 * CountOf(keywords.secondary, inT) + 2 * CountOf(keywords.secondary, inDnotT)
        + CountOf(keywords.secondary, inConly)
        + 5 * CountOf(keywords.company_indicators, inC)
        - 3 * CountOf(keywords.exclusions, inAll)

NoPositiveScore == \A c \in DOMAIN category_scores : category_scores[c] <= 0

\* C11: for all string arguments classify_job_category returns one string, which is one
\* of the 15 category names of the taxonomy or "Other".
C11_ReturnsTaxonomyOrOther ==
    Classified
    => /\ category \in TaxonomyNames \cup {"Other"}
       /\ Cardinality(TaxonomyNames) = Len(Categories)
       /\ \A c \in 1..Len(Categories) : Categories[c].name \in TaxonomyNames

\* C11 witness: a title without any keyword, classified by the fallback logic.
C11_Witness ==
    /\ cpc = "classified"
    /\ title = "Program Coordinator"
    /\ NoPositiveScore
    /\ category = "NGO & Development"

\* C12: the score of every category is 10 per primary keyword in the lower-cased title,
\* else 8 if in the description; 3, else 2, else 1 per secondary keyword in title,
\* description, company; 5 per company indicator in the company; minus 3 per exclusion in
\* the combined text; and a positive highest score is the score of the category returned.
C12_ScoringFormula ==
    Classified
    => /\ \A c \in 1..Len(Categories) : category_scores[c] = ClaimedScore(Categories[c])
       /\ ~NoPositiveScore
            => \E c \in 1..Len(Categories) :
                  /\ category = Categories[c].name
                  /\ \A d \in 1..Len(Categories) : category_scores[d] <= category_scores[c]

\* C12 witness: "software" is in the title and in the description, and an exclusion
\* ("accounting software") applies to the category returned.
C12_Witness ==
    /\ cpc = "classified"
    /\ In("software", StrLower(title))
    /\ In("software", StrLower(description))
    /\ In("accounting software", StrLower(description))
    /\ category = "IT & Technology"

\* C13: of several categories with the same highest positive score the one declared
\* first in the taxonomy is returned, and a second call with the same arguments returns
\* the same category.
C13_TieBreakFirstDeclared ==
    /\ cpc = "again" => category_again = category
    /\ (Classified /\ ~NoPositiveScore)
         => \E c \in 1..Len(Categories) :
               /\ category = Categories[c].name
               /\ \A d \in 1..Len(Categories) : category_scores[d] <= category_scores[c]
               /\ \A d \in 1..(c - 1) : category_scores[d] < category_scores[c]

\* C13 witness: Healthcare and Education & Training tie on the highest score, and
\* Healthcare, declared first, is returned twice.
C13_Witness ==
    /\ cpc = "again"
    /\ category_scores[3] > 0
    /\ category_scores[3] = category_scores[4]
    /\ \A d \in 1..Len(Categories) : category_scores[d] <= category_scores[3]
    /\ category = "Healthcare"
    /\ category_again = "Healthcare"

\* the title words of the fallback logic
FallbackTitleWords ==
    {"accountant", "accounting", "finance", "financial", "manager", "director",
     "supervisor", "head", "assistant", "clerk", "secretary", "admin", "officer",
     "coordinator"}

\* C14 (amended): if no category scores above zero, classify_job_category returns
\* "Other" unless the lower-cased title has one of the title words of the fallback
\* logic ("coordinator", ...), and then a taxonomy category chosen by that logic.
C14_NoScoreGivesFallback ==
    (Classified /\ NoPositiveScore)
    => IF \E w \in FallbackTitleWords : In(w, StrLower(title))
       THEN category \in {"Finance & Banking", "Management", "Administration", "Healthcare",
                          "NGO & Development"}
       ELSE category = "Other"

\* C14 witness: no category scores for the title "Coordinator", and the fallback
\* logic returns "Administration".
C14_Witness ==
    /\ cpc = "classified"
    /\ title = "Coordinator"
    /\ company = ""
    /\ NoPositiveScore
    /\ category = "Administration"

\* C14 (as claimed): if no category scores above zero, the result is "Other".
C14_NoScoreGivesOther ==
    (Classified /\ NoPositiveScore) => category = "Other"

\* C15: ("Senior Accountant", "Prepare financial statements", "ABC Bank") is classified
\* as "Finance & Banking", whose score is strictly the highest.
C15_SeniorAccountant ==
    (Classified /\ title = "Senior Accountant" /\ description = "Prepare financial statements"
        /\ company = "ABC Bank")
    => /\ category = "Finance & Banking"
       /\ Categories[1].name = "Finance & Banking"
       /\ \A c \in 2..Len(Categories) : category_scores[c] < category_scores[1]

\* C15 witness: the call of the example has returned.
C15_Witness ==
    /\ cpc = "classified"
    /\ title = "Senior Accountant"
    /\ description = "Prepare financial statements"
    /\ company = "ABC Bank"
    /\ category = "Finance & Banking"
    /\ category_scores[1] >= 10

\* C16 (as claimed): for every category C and every primary keyword k listed for C,
\* classify_job_category(k, "", "") counts +10 for k in C's score and returns a taxonomy
\* category, not "Other".
C16_PrimaryKeywordRecognised ==
    (Classified /\ title \in PrimaryKeywords /\ description = "" /\ company = "")
    => /\ \A c \in 1..Len(Categories) :
             (\E i \in 1..Len(Categories[c].primary) : Categories[c].primary[i] = title)
             => PrimaryPoints(title, StrLower(title), StrLower(description)) = 10
       /\ category \in TaxonomyNames

----------------------------------------------------------------------------
\* Properties of clean_text

\* the white space of Unicode (str.isspace)
WhiteSpace ==
    (9..13) \cup (28..32) \cup {133, 160, 5760} \cup (8192..8202)
    \cup {8232, 8233, 8239, 8287, 12288}

\* C17: clean_text is idempotent, and its result for a string has only ASCII code
\* points and no white space at either end.
C17_CleanTextIdempotent ==
    /\ kpc = "twice" => cleaned_again = cleaned
    /\ (kpc \in {"once", "twice"} /\ raw_text.isStr)
         => /\ cleaned.isStr
            /\ \A i \in 1..Len(cleaned.cps) : cleaned.cps[i] \in 0..127
            /\ cleaned.cps # <<>>
                 => /\ cleaned.cps[1] \notin WhiteSpace
                    /\ cleaned.cps[Len(cleaned.cps)] \notin WhiteSpace

\* C17 witness: of "e acute, blank, A" the e acute is removed, then the blank that has
\* become leading, and a second application changes nothing.
C17_Witness ==
    /\ kpc = "twice"
    /\ raw_text = PyStr(<<233, 32, 65>>)
    /\ cleaned = PyStr(<<65>>)
    /\ cleaned_again = PyStr(<<65>>)

----------------------------------------------------------------------------
\* Properties of the fields of a listing

\* the fields of a dict, one per pair of keys ("Job Title" and "title", ...)
FieldsOf(dict) ==
    {dict.id, dict.title, dict.company, dict.location, dict.description, dict.category,
     dict.expiry, dict.site, dict.email}

\* a str all of whose characters are ASCII
AsciiOnly(text) == text.isStr /\ \A i \in 1..Len(text.cps) : text.cps[i] \in 0..127

\* C18 (as claimed): every field of every listing appended (id, title, company, location,
\* description, category, expiry display, source site, apply email) contains only ASCII
\* characters, for every adapter and whatever text the scraped pages contain.
C18_EveryFieldIsAscii ==
    lpc = "appended" => \A field \in FieldsOf(job_dict) : AsciiOnly(field)

\* C19 (as claimed): the category of every listing appended is one of the 15 category
\* names or "Other", for every adapter and every path that creates a listing, the
\* placeholder and fallback listings included.
C19_CategoryInTaxonomy ==
    lpc = "appended"
    => CharsOf(job_dict.category.cps) \in TaxonomyNames \cup {"Other"}

\* C20 (as claimed): no two listings of a run made on one calendar day have the same id;
\* here, of the listings one call of scrape_page returns, all of which scrape_jobs and
\* scrape_multiple_sites carry to the aggregate.
C20_IdsUniqueWithinRun ==
    ppc = "returned"
    => \A i, j \in 1..Len(page_result.jobs) :
          i # j => ListingId(page_result.jobs[i], today) # ListingId(page_result.jobs[j], today)

----------------------------------------------------------------------------
\* Properties of get_total_pages

\* the largest of the caps the adapters apply
LargestCap == 100

\* the document holds no link and no page number
NoPaginationEvidence(s) == s.links = <<>> /\ s.text.kind = "none"

\* C21 (as claimed): for every adapter and every document, get_total_pages does not raise
\* and returns a p with 1 <= p <= 100, and returns 1 for a document without pagination
\* evidence.
C21_TotalPagesWithinCap ==
    gpc = "returned"
    => /\ ~pages_returned.raised
       /\ pages_returned.n \in 1..LargestCap
       /\ NoPaginationEvidence(pages_soup) => pages_returned.n = 1

----------------------------------------------------------------------------
\* Properties of extract_email_from_job_page

\* an operational address: noreply, no-reply, admin@, webmaster@ and the like
Operational(address) ==
    AnyOf({"noreply", "no-reply", "donotreply", "admin@", "webmaster@", "postmaster@"}, address)

\* the placeholder string of an adapter
PlaceholderOf(site) ==
    CASE site = "VacancyMail" -> "N/A"
      [] site = "Jobs Zimbabwe" -> "Apply on Jobs Zimbabwe"
      [] site = "ZimboJobs" -> "Apply on ZimboJobs"
      [] site = "VacancyBox" -> "Apply on VacancyBox"
      [] site = "RecruitmentMatters" -> "Apply on RecruitmentMatters"

\* the addresses a detail page holds
AddressesOn(page) ==
    {page.text[i].address : i \in 1..Len(page.text)} \cup {page.mailto[i] : i \in 1..Len(page.mailto)}

\* C22 (as claimed): extract_email_from_job_page of no adapter returns an operational
\* address; when every address of the detail page is operational the result is the
\* adapter's placeholder, and when the page also holds another address the result is an
\* address that is not operational.
C22_NoOperationalAddress ==
    (epc = "returned" /\ detail_page.http = "ok")
    => /\ ~Operational(email_returned)
       /\ (\A a \in AddressesOn(detail_page) : Operational(a))
            => email_returned = PlaceholderOf(email_site)
       /\ (\E a \in AddressesOn(detail_page) : ~Operational(a))
            => email_returned \in {a \in AddressesOn(detail_page) : ~Operational(a)}

----------------------------------------------------------------------------
\* Properties of the HTTP requests

\* C23 (as claimed): no retries. Of the requests one call of scrape_page makes for its
\* results page, none follows a request for the same page that failed (an exception or
\* an answer that is no 2xx), and no page number is requested twice.
C23_NoRetries ==
    ppc = "returned"
    => /\ \A i, j \in 1..Len(page_requests) :
             (i < j /\ page_requests[i].page = page_requests[j].page)
             => page_requests[i].outcome = "ok"
       /\ \A i, j \in 1..Len(page_requests) :
             page_requests[i].page = page_requests[j].page => i = j

----------------------------------------------------------------------------
\* Properties of scrape_multiple_sites as a whole

RECURSIVE ConcatJobs(_)
\* the listings of the finished adapter runs, one run after the other
ConcatJobs(runs) ==
    IF runs = <<>> THEN <<>> ELSE Head(runs).jobs \o ConcatJobs(Tail(runs))

\* list a is the beginning of list b
StartsWith(b, a) == Len(a) <= Len(b) /\ SubSeq(b, 1, Len(a)) = a

\* in every state: the adapters before the current one have each returned once, in
\* list order, a page is fetched only for the current adapter, and the aggregate is
\* the concatenation of what the adapters returned
SequentialSoFar ==
    /\ scraper_i \in 1..Len(Scrapers) + 1
    /\ Len(returned) = scraper_i - 1
    /\ all_jobs_data = ConcatJobs(returned)
    /\ \A i \in 1..Len(returned) : \A k \in 1..Len(returned[i].jobs) :
          returned[i].jobs[k].site = Scrapers[i]
    /\ pc # "idle" => scraper_i <= Len(Scrapers)
    /\ opc # "scraping" => scraper_i = Len(Scrapers) + 1

\* in every step: the loop stays at its adapter or moves to the next one, a call of
\* an adapter's method is made while the loop is at that adapter, and the aggregate
\* and the list of finished runs only grow at their ends
SequentialStep ==
    /\ scraper_i' \in {scraper_i, scraper_i + 1}
    /\ (calls' # calls /\ calls' # <<>>) => (scraper_i' = scraper_i /\ pc # "idle")
    /\ StartsWith(all_jobs_data', all_jobs_data)
    /\ StartsWith(returned', returned)

\* C24: the adapters run one after the other in list order, each once: the calls of
\* adapter i are all made before the loop moves to adapter i+1, the aggregate is only
\* appended to, and it is the concatenation of the adapters' results in list order,
\* up to the end of scrape_multiple_sites.
C24_SequentialAppendOnly == []SequentialSoFar /\ [][SequentialStep]_vars

\* C24 witness: the loop is over, the first adapter fetched three pages, and the
\* listings of three adapters lie in the aggregate in list order.
C24_Witness ==
    /\ opc = "statistics"
    /\ Len(returned) = Len(Scrapers)
    /\ Len(returned[1].jobs) = MaxPages * JobsPerPage
    /\ returned[2].jobs # <<>>
    /\ returned[3].jobs = <<>>
    /\ returned[4].jobs # <<>>
    /\ all_jobs_data = returned[1].jobs \o returned[2].jobs \o returned[4].jobs
            \o returned[5].jobs

\* the write that ended last was one of the "latest" copies and met PermissionError
LatestCopyDenied ==
    /\ last_write.file \in {LatestCsv, LatestJson}
    /\ last_write.outcome = "PermissionError"

\* C25: a PermissionError while one of the "latest" copies is written does not abort
\* the run: both timestamped files written before remain, the warning is logged, the
\* summary statistics come next and the function returns normally. Any other
\* exception of a write of the persistence step leaves the function.
C25_PermissionErrorDowngraded ==
    /\ LatestCopyDenied
       => /\ files[TimestampedCsv] = "new" /\ files[TimestampedJson] = "new"
          /\ warned
          /\ opc \in {"statistics", "ended"}
          /\ opc = "statistics" => ENABLED PrintStatistics
          /\ opc = "ended" => ended = "returned"
    /\ (last_write.outcome \in {"PermissionError", "OSError"} /\ ~LatestCopyDenied)
       => /\ opc = "ended"
          /\ ended = "raised"
          /\ ~warned

\* C25 witness: scraped_data.csv of an earlier run could not be overwritten; the run
\* returned normally with both timestamped files written and the old copies in place.
C25_Witness ==
    /\ last_write = Written(LatestCsv, "PermissionError")
    /\ ended = "returned"
    /\ warned
    /\ files = [f \in OutputFiles |-> IF f \in {LatestCsv, LatestJson} THEN "old" ELSE "new"]
    /\ all_jobs_data # <<>>

\* the run in progress gathered listings and then one of its calls raised
RaisedAfterListings ==
    /\ pc = "return"
    /\ Len(calls) >= 2
    /\ calls[1].out = "ok"
    /\ calls[Len(calls)].out = "raise"

\* C26: whole-adapter failure is all-or-nothing. When scrape_page or get_total_pages
\* raises after page 1 or several pages were scraped, scrape_jobs returns the empty
\* list; the adapter's entry in site_stats is 0 and none of its listings is in the
\* aggregate.
C26_AllOrNothing ==
    /\ RaisedAfterListings
       => /\ result.jobs = <<>>
          /\ result.how = "raised"
    /\ \A i \in 1..Len(returned) :
          returned[i].how = "raised"
          => /\ returned[i].jobs = <<>>
             /\ site_stats[Scrapers[i]] = 0
             /\ \A k \in 1..Len(all_jobs_data) : all_jobs_data[k].site # Scrapers[i]

\* C26 witness: pages 1 and 2 of the second adapter gave listings, page 3 raised, and
\* the run is about to return the empty list.
C26_Witness ==
    /\ RaisedAfterListings
    /\ scraper_i = 2
    /\ Len(calls) = 4
    /\ calls[3].out = "ok"
    /\ calls[4].op = "scrape_page"
    /\ Len(run_jobs_data) = 2 * JobsPerPage
    /\ result.jobs = <<>>
    /\ all_jobs_data # <<>>

----------------------------------------------------------------------------
\* Properties of single adapters' scrape_page

\* C27 (as claimed): whenever the request for the results page succeeds,
\* ZimboJobsScraper.scrape_page returns the parsed document together with a non-empty
\* list: the listings extracted or, when none could be extracted from JSON-LD or
\* HTML, exactly the one placeholder listing.
C27_ZimboJobsNeverEmpty ==
    (ppc = "returned" /\ page_site = "ZimboJobs" /\ ~FetchFails(page_content))
    => /\ page_result.doc = Doc("ZimboJobs", arg_page_num)
       /\ page_result.jobs # <<>>
       /\ JsonJobs(page_content.scripts, 1, arg_page_num) = <<>>
            => page_result.jobs = <<Placeholder(arg_page_num)>>

\* the dates a text near a heading holds, and whether the text names an expiry
DatesNear(text) == {i \in 1..Len(text.toks) : text.toks[i].k = "date"}
DateNear(text) ==
    LET tok == text.toks[CHOOSE i \in DatesNear(text) : \A j \in DatesNear(text) : i <= j]
    IN  Date(tok.y, tok.m, tok.d)
ExplicitExpiry(text) ==
    \E i \in 1..Len(text.toks) :
        text.toks[i].k = "word" /\ Lower(text.toks[i].w) \in {"expires", "expiry", "closing"}

\* the heading at position i of the page is among the listings returned
Included(i) == \E k \in 1..Len(page_result.jobs) : page_result.jobs[k].index = i

\* C28 (as claimed): in JobsZimbabweScraper.scrape_page a date near a heading that is
\* no explicit expiry is the posted date: the listing is included if and only if that
\* date plus 30 days is on or after today, for "Posted on <date>" and for a bare
\* date alike; a heading with no date nearby is never included.
C28_NearbyDateIsPostedDate ==
    (ppc = "returned" /\ page_site = "Jobs Zimbabwe" /\ ~FetchFails(page_content))
    => \A i \in 1..Len(page_content.items) :
          LET item == page_content.items[i]
          IN  item.shape \in {"ok", "detail_fails"}
              => /\ DatesNear(item.text) = {} => ~Included(i)
                 /\ (DatesNear(item.text) # {} /\ ~ExplicitExpiry(item.text))
                      => (Included(i)
                            <=> DateGE(AddDays(DateNear(item.text), GraceDays), today))

----------------------------------------------------------------------------
\* Properties of site_stats

RECURSIVE SumOver(_, _)
\* the sum of the entries of stats for the site names of the set sites
SumOver(stats, sites) ==
    IF sites = {} THEN 0
    ELSE LET s == CHOOSE x \in sites : TRUE
         IN  stats[s] + SumOver(stats, sites \ {s})

\* C29 (as claimed): after the adapter loop, in web_scraper.py and in
\* web_scraper_clean.py, site_stats has one entry per configured adapter, each entry
\* is the number of listings that adapter contributed, and the entries sum to the
\* length of the aggregate.
C29_SiteStatsMatchAggregate ==
    opc = "finished"
    => /\ Cardinality(DOMAIN site_stats) = Len(ConfiguredScrapers)
       /\ \A i \in 1..Len(ConfiguredScrapers) :
             site_stats[ConfiguredScrapers[i]] = Len(returned[i].jobs)
       /\ SumOver(site_stats, DOMAIN site_stats) = Len(all_jobs_data)

----------------------------------------------------------------------------
\* Properties of the output files

\* a write of an output file was begun, or an output file is of this run
OutputTouched == last_write # NoWrite \/ \E f \in OutputFiles : files[f] = "new"

\* C30: when every adapter contributed zero listings, scrape_multiple_sites returns
\* without writing or overwriting any of the four output files; an output file is
\* written only when the aggregate is non-empty, and only after all adapters have
\* finished.
C30_NoFilesWithoutJobs ==
    /\ (opc \notin {"scraping", "finished"} /\ all_jobs_data = <<>>)
       => /\ ~OutputTouched
          /\ ended = "returned"
    /\ OutputTouched
       => /\ all_jobs_data # <<>>
          /\ Len(returned) = Len(Scrapers)
          /\ scraper_i = Len(Scrapers) + 1
          /\ pc = "idle"
          /\ opc \notin {"scraping", "finished"}

\* C30 witness: all five adapters returned nothing, the function has returned, and
\* the copies of an earlier run are as they were.
C30_Witness ==
    /\ ended = "returned"
    /\ Len(returned) = Len(Scrapers)
    /\ \A i \in 1..Len(returned) : returned[i].jobs = <<>>
    /\ \E i \in 1..Len(returned) : returned[i].how = "normal"
    /\ files = [f \in OutputFiles |-> IF f \in {LatestCsv, LatestJson} THEN "old" ELSE "absent"]
    /\ last_write = NoWrite

====
